---- MODULE Spec2Model ----
(***************************************************************************)
(* Model of the lead-discovery pipeline of MintstudioGit/Somintfast.       *)
(*                                                                         *)
(* Part 1: the OSM bulk import, POST /api/v1/sources/osm/bulk-import       *)
(* (src/unnamed/part_009) with the Overpass adapter it calls               *)
(* (src/src/lib/sources/osm.ts).  One invocation of POST is a "run"; two   *)
(* run slots exist so that concurrent requests can be interleaved at the   *)
(* handler's suspension points (the awaits).                               *)
(***************************************************************************)
EXTENDS Integers, Sequences, FiniteSets, TLC

(***************************************************************************)
(* Bounds of the model (not program constants).                            *)
(***************************************************************************)
\* named nodes in one "fresh" provider batch (the code asks for up to 250)
FreshLen == 26
\* non-empty provider answers available to a long run
MaxOk == 1
\* persistence failures (prisma.lead.create throwing) per run
MaxFaults == 1
\* calls a medium run may make beyond the schema's minimum of maxCalls
ExtraCalls == 3

(***************************************************************************)
(* Program constants.                                                      *)
(***************************************************************************)
TargetMin == 50
TargetMax == 1000
TargetDefault == 1000
MaxCallsMin == 5
MaxCallsMax == 30
MaxCallsDefault == 25
TileRows == 5
TileCols == 5
StartDelayMs == 150
CapMs == 5000
FloorMs == 75
SpeedUpStreak == 3
BboxLimit == 250

\* undefined, for a string-valued field
None == "<undefined>"

\* an optional value of any other type: <<>> when undefined, <<v>> otherwise
Nothing == <<>>
Some(v) == <<v>>
IsSome(o) == o # <<>>
Get(o) == o[1]

Runs == {"A", "B"}

(***************************************************************************)
(* Math.round on the two products the throttle computes.  delayMs is an    *)
(* integer, so delayMs * 1.7 + 100 = (17 d + 1000) / 10 and                *)
(* delayMs * 0.85 = 85 d / 100; Math.round rounds halves up.               *)
(***************************************************************************)
RoundDiv(num, den) == (2 * num + den) \div (2 * den)

Min(a, b) == IF a <= b THEN a ELSE b
Max(a, b) == IF a >= b THEN a ELSE b

BackoffCapless(d) == RoundDiv(17 * d + 1000, 10)
BackoffNoConstant(d) == Min(CapMs, RoundDiv(17 * d, 10))
Backoff(d) == Min(CapMs, RoundDiv(17 * d + 1000, 10))

SpeedUpFloorless(d) == RoundDiv(85 * d, 100)
SpeedUp(d) == Max(FloorMs, RoundDiv(85 * d, 100))

(***************************************************************************)
(* BERLIN_BBOX in units of 1e-4 degree, and tileBbox.  A tile's bounds are *)
(* kept as numerators over the denominators rows (latitudes) and cols      *)
(* (longitudes): south + r * (north - south) / rows.                       *)
(***************************************************************************)
BERLIN_BBOX == [south |-> 523383, west |-> 130884, north |-> 526755, east |-> 137612]

tileBbox(b, rows, cols) ==
  [i \in 1..(rows * cols) |->
     LET r == (i - 1) \div cols
         c == (i - 1) % cols
     IN [south |-> b.south * rows + r * (b.north - b.south),
         north |-> b.south * rows + (r + 1) * (b.north - b.south),
         west  |-> b.west * cols + c * (b.east - b.west),
         east  |-> b.west * cols + (c + 1) * (b.east - b.west)]]

tagFiltersFor(kind) ==
  IF kind = "doctors"
  THEN << <<[key |-> "amenity", value |-> "doctors"]>>,
          <<[key |-> "healthcare", value |-> "doctor"]>>,
          <<[key |-> "healthcare", value |-> "clinic"]>>,
          <<[key |-> "amenity", value |-> "dentist"]>> >>
  ELSE << <<[key |-> "shop", value |-> None]>>,
          <<[key |-> "office", value |-> None]>>,
          <<[key |-> "craft", value |-> None]>>,
          <<[key |-> "amenity", value |-> None]>>,
          <<[key |-> "tourism", value |-> None]>>,
          <<[key |-> "leisure", value |-> None]>>,
          <<[key |-> "healthcare", value |-> None]>>,
          <<[key |-> "man_made", value |-> None]>> >>

Tiles == tileBbox(BERLIN_BBOX, TileRows, TileCols)

(***************************************************************************)
(* BodySchema: zod safeParse with defaults.  `json` is the optional body    *)
(* (Nothing when req.json() failed); its absent fields are None / Nothing. *)
(***************************************************************************)
BodySchemaOk(json) ==
  /\ IsSome(json)
  /\ Get(json).city # ""
  /\ Get(json).kind \in {None, "doctors", "all"}
  /\ \/ ~IsSome(Get(json).target)
     \/ (Get(Get(json).target) >= TargetMin /\ Get(Get(json).target) <= TargetMax)
  /\ \/ ~IsSome(Get(json).maxCalls)
     \/ (Get(Get(json).maxCalls) >= MaxCallsMin /\ Get(Get(json).maxCalls) <= MaxCallsMax)

BodySchemaParse(json) ==
  [city     |-> IF Get(json).city = None THEN "Berlin" ELSE Get(json).city,
   kind     |-> IF Get(json).kind = None THEN "doctors" ELSE Get(json).kind,
   target   |-> IF IsSome(Get(json).target) THEN Get(Get(json).target) ELSE TargetDefault,
   maxCalls |-> IF IsSome(Get(json).maxCalls) THEN Get(Get(json).maxCalls) ELSE MaxCallsDefault]

(***************************************************************************)
(* Text of an HTTP error body, as a sequence of characters, with           *)
(* String.prototype.toLowerCase and includes.                              *)
(***************************************************************************)
UpperChars == <<"A","B","C","D","E","F","G","H","I","J","K","L","M",
                "N","O","P","Q","R","S","T","U","V","W","X","Y","Z">>
LowerChars == <<"a","b","c","d","e","f","g","h","i","j","k","l","m",
                "n","o","p","q","r","s","t","u","v","w","x","y","z">>

toLowerCase(s) ==
  [i \in 1..Len(s) |->
     IF \E k \in 1..26 : UpperChars[k] = s[i]
     THEN LowerChars[CHOOSE k \in 1..26 : UpperChars[k] = s[i]]
     ELSE s[i]]

includes(s, needle) ==
  \E i \in 1..(Len(s) - Len(needle) + 1) : SubSeq(s, i, i + Len(needle) - 1) = needle


(***************************************************************************)
(* overpassRequest.  `net` is what the network does with the request:      *)
(* fetch rejecting (abort on timeout, transport failure), or an HTTP       *)
(* response with a status, a body text and the JSON the body parses to     *)
(* (Nothing when it does not parse; its elements Nothing when no array).   *)
(***************************************************************************)
ErrorSliceLen == 200

NetworkErrorText == <<"n","e","t","w","o","r","k","_","e","r","r","o","r">>

overpassRequest(net) ==
  IF net.kind = "reject"
  THEN [ok |-> FALSE, status |-> 0, elements |-> <<>>, error |-> Some(NetworkErrorText)]
  ELSE IF ~(net.status >= 200 /\ net.status <= 299)
  THEN [ok |-> FALSE, status |-> net.status, elements |-> <<>>,
        error |-> Some(SubSeq(net.text, 1, Min(ErrorSliceLen, Len(net.text))))]
  ELSE IF ~IsSome(net.json)
  THEN [ok |-> FALSE, status |-> 0, elements |-> <<>>, error |-> Some(NetworkErrorText)]
  ELSE [ok |-> TRUE, status |-> net.status,
        elements |-> IF IsSome(Get(net.json).elements) THEN Get(Get(net.json).elements) ELSE <<>>,
        error |-> Nothing]

(***************************************************************************)
(* toPlaces: one OsmPlace per element that has a name.  An element of the  *)
(* payload may be null; reading el.tags of it throws a TypeError, outside  *)
(* any try block.                                                          *)
(***************************************************************************)
NullElement == [null |-> TRUE]
IsNull(el) == "null" \in DOMAIN el

toPlacesThrows(elements) == \E i \in 1..Len(elements) : IsNull(elements[i])

Truthy(s) == s # None /\ s # ""

Coalesce(a, b) == IF a # None THEN a ELSE b

JoinNonEmpty(a, b) ==
  IF Truthy(a) /\ Truthy(b) THEN a \o ", " \o b
  ELSE IF Truthy(a) THEN a
  ELSE IF Truthy(b) THEN b
  ELSE ""

toPlace(el, cityFallback) ==
  LET tags == el.tags
      addrCity == Coalesce(tags.city, cityFallback)
      line1 == IF Truthy(tags.street) /\ Truthy(tags.housenumber)
               THEN tags.street \o " " \o tags.housenumber ELSE tags.street
      line2 == IF Truthy(tags.postcode) /\ Truthy(addrCity)
               THEN tags.postcode \o " " \o addrCity ELSE addrCity
  IN [sourceRef |-> IF Truthy(el.type) /\ IsSome(el.id)
                    THEN el.type \o "/" \o ToString(Get(el.id)) ELSE None,
      name      |-> tags.name,
      website   |-> Coalesce(tags.website, tags.contactWebsite),
      address   |-> IF Truthy(tags.street) \/ Truthy(tags.postcode)
                    THEN JoinNonEmpty(line1, line2) ELSE None]

RECURSIVE toPlaces(_, _)
toPlaces(elements, cityFallback) ==
  IF elements = <<>> THEN <<>>
  ELSE LET el == Head(elements)
           rest == toPlaces(Tail(elements), cityFallback)
       IN IF ~Truthy(el.tags.name) THEN rest ELSE <<toPlace(el, cityFallback)>> \o rest

(***************************************************************************)
(* searchOsmByBbox, after its sleep: the request and the result.           *)
(***************************************************************************)
RateText == <<"r","a","t","e">>

RateLimited(r) ==
  r.status = 429 \/ (IF IsSome(r.error) THEN includes(toLowerCase(Get(r.error)), RateText) ELSE FALSE)

\* threw: the call rejected instead of returning (toPlaces threw)
searchOsmByBbox(net, cityFallback) ==
  LET r == overpassRequest(net)
  IN IF ~r.ok THEN [places |-> <<>>, rateLimited |-> RateLimited(r), threw |-> FALSE]
     ELSE IF toPlacesThrows(r.elements)
     THEN [places |-> <<>>, rateLimited |-> RateLimited(r), threw |-> TRUE]
     ELSE [places |-> toPlaces(r.elements, cityFallback), rateLimited |-> RateLimited(r),
           threw |-> FALSE]

\* the pre-request sleep of searchOsmByBbox: params.delayMs && params.delayMs > 0
SleepFor(paramDelay) == IF IsSome(paramDelay) /\ Get(paramDelay) > 0 THEN Get(paramDelay) ELSE 0

(***************************************************************************)
(* The identity key of the in-request de-dupe.                             *)
(***************************************************************************)
RefOf(p) ==
  IF Truthy(p.sourceRef)
  THEN "osm:" \o p.sourceRef
  ELSE "name:" \o p.name \o "|web:" \o Coalesce(p.website, "") \o "|addr:" \o Coalesce(p.address, "")

(***************************************************************************)
(* What the Overpass server may answer: the element lists of its 200       *)
(* responses and the error responses.  Fresh nodes are numbered from the   *)
(* count of nodes already handed out, so that every fresh batch is new to  *)
(* the run; FreshElements(base) for an earlier base is that batch again.   *)
(***************************************************************************)
Tags(name, website, street, housenumber, postcode) ==
  [name |-> name, website |-> website, contactWebsite |-> None, street |-> street,
   housenumber |-> housenumber, postcode |-> postcode, city |-> None]

SmallElements ==
  << [type |-> "node", id |-> Some(101),
      tags |-> Tags("Praxis Mitte", "https://mitte.example", "Hauptstr", "1", "10115")],
     [type |-> "node", id |-> Some(101),
      tags |-> Tags("Praxis Mitte", "https://mitte.example", "Hauptstr", "1", "10115")],
     [type |-> "way", id |-> Some(7), tags |-> Tags(None, None, "Hauptstr", "3", None)],
     [type |-> "node", id |-> Nothing,
      tags |-> Tags("Zahnarzt Nord", "https://nord.example", "Ringstr", "2", "13347")],
     [type |-> "node", id |-> Nothing,
      tags |-> Tags("zahnarzt nord", "https://nord.example", "Ringstr", "2", "13347")],
     [type |-> "node", id |-> Nothing,
      tags |-> Tags("Zahnarzt Nord", "https://nord.example", "Ringstr", "2", "13347")] >>

NamelessElements ==
  << [type |-> "way", id |-> Some(7), tags |-> Tags(None, None, "Hauptstr", "3", None)] >>

FreshElements(base) ==
  [i \in 1..FreshLen |->
     [type |-> "node", id |-> Some(1000 + base + i),
      tags |-> Tags("Arzt " \o ToString(base + i), None, None, None, None)]]

Http(status, text, json) == [kind |-> "http", status |-> status, text |-> text, json |-> json]

\* an error page that names the rate limit only after its first ErrorSliceLen characters
LongRateText == [i \in 1..ErrorSliceLen |-> "x"] \o <<"r","a","t","e","_","l","i","m","i","t","e","d">>
\* an error page in which the word straddles that position
StraddleRateText == [i \in 1..(ErrorSliceLen - 2) |-> "x"] \o <<"r","a","t","e">>
\* an error page of exactly ErrorSliceLen characters that ends with the word
EdgeRateText == [i \in 1..(ErrorSliceLen - 4) |-> "x"] \o <<"R","A","T","E">>

TooManyText == <<"T","o","o"," ","M","a","n","y"," ","R","e","q","u","e","s","t","s">>
RateLimitText == <<"R","a","t","e"," ","l","i","m","i","t","e","d">>
GatewayText == <<"G","a","t","e","w","a","y"," ","T","i","m","e","o","u","t">>

\* answers that carry no place: failures, and 200 responses without a named element
EmptyNets ==
  { [kind |-> "reject", status |-> 0, text |-> <<>>, json |-> Nothing],
    Http(429, TooManyText, Nothing),
    Http(503, RateLimitText, Nothing),
    Http(504, GatewayText, Nothing),
    Http(500, <<>>, Nothing),
    Http(301, <<>>, Some([elements |-> Some(SmallElements)])),
    Http(429, <<>>, Nothing),
    Http(200, <<>>, Nothing),
    Http(200, <<>>, Some([elements |-> Nothing])),
    Http(200, <<>>, Some([elements |-> Some(<<>>)])),
    Http(200, <<>>, Some([elements |-> Some(NamelessElements)])) }

Ok200(elements) == Http(200, <<>>, Some([elements |-> Some(elements)]))

\* a 200 response whose element list holds a null
NullNets == { Ok200(NamelessElements \o <<NullElement>>) }

(***************************************************************************)
(* The requests a run slot may receive, each with the world it runs in:    *)
(* how many answers with places the server has (ok), how many of them may  *)
(* be fresh batches (fresh), and how often prisma.lead.create may throw    *)
(* (faults).                                                               *)
(***************************************************************************)
Body(kind, target, maxCalls) ==
  Some([city |-> None, kind |-> kind, target |-> target, maxCalls |-> maxCalls])

World(ok, fresh, faults) == [ok |-> ok, fresh |-> fresh, faults |-> faults]

NoRequest == [auth |-> FALSE, json |-> Nothing, world |-> World(0, 0, 0), sent |-> FALSE]

Request(auth, json, world) == [auth |-> auth, json |-> json, world |-> world, sent |-> TRUE]

ShortRequests ==
  { Request(TRUE, Body("doctors", Some(TargetMin), Some(MaxCallsMin)), World(MaxCallsMin, 2, 0)) }

MediumRequests ==
  { Request(TRUE, Body("all", Some(TargetMin), Some(MaxCallsMin + ExtraCalls)),
            World(MaxCallsMin + ExtraCalls, 0, MaxFaults)) }

LongRequests ==
  { Request(TRUE, Body(None, Some(TargetMin), Some(TileRows * TileCols + 1)), World(MaxOk, 1, 0)),
    Request(TRUE, Body(None, Nothing, Nothing), World(0, 0, 0)) }

RejectedRequests ==
  { Request(FALSE, Body(None, Nothing, Nothing), World(0, 0, 0)),
    Request(TRUE, Nothing, World(0, 0, 0)),
    Request(TRUE, Body(None, Some(TargetMin - 1), Nothing), World(0, 0, 0)),
    Request(TRUE, Body(None, Nothing, Some(MaxCallsMax + 1)), World(0, 0, 0)) }

PairRequests ==
  { Request(TRUE, Body("doctors", Some(TargetMin), Some(MaxCallsMin)), World(1, 0, 1)) }

(***************************************************************************)
(* State.  Every variable is indexed by the run slot.  The variables that  *)
(* POST declares (calls, delayMs, successStreak, seenRef, createdIds) live *)
(* in the invocation's own frame, Frame(r).                                *)
(***************************************************************************)
VARIABLES
  request,        \* the HTTP request the slot serves, with its world
  world,          \* what is left of the world's budgets, and the fresh nodes handed out
  pc,             \* "idle", "loop", "request", "places", "done"
  input,          \* parsed.data
  filterIdx,      \* position of the outer loop in filters (1-based)
  tileIdx,        \* position of the inner loop in tiles (1-based)
  calls,
  delayMs,
  successStreak,
  seenRef,
  createdIds,     \* createdIds.length
  params,         \* the arguments of the searchOsmByBbox call in progress or last made
  sleptMs,        \* how long that call slept before its request
  resp,           \* the result of the last searchOsmByBbox call
  placeIdx,       \* position of the loop over resp.places (1-based)
  handed,         \* history: the places handed to prisma.lead.create, in order
  log,            \* history: one entry per completed searchOsmByBbox call
  response        \* the HTTP response, once returned

importVars == <<request, world, pc, input, filterIdx, tileIdx, calls, delayMs, successStreak,
                seenRef, createdIds, params, sleptMs, resp, placeIdx, handed, log, response>>

(***************************************************************************)
(* State of the other parts of the pipeline, which the bulk import leaves  *)
(* alone: a single adapter invocation (probe, returned).                    *)
(***************************************************************************)
VARIABLES
  probe,          \* the adapter operation invoked and what its provider does
  returned        \* what the invocation returned or threw

adapterVars == <<probe, returned>>

(***************************************************************************)
(* State of the discover import (POST of discover/osm/import) and of the   *)
(* mapWithConcurrency call inside it.                                      *)
(***************************************************************************)
VARIABLES
  job,            \* the request and its environment (provider answer, database, faults)
  epc,            \* "idle", "search", "pool", "persist", "done"
  items,          \* mapWithConcurrency: the input list
  idx,            \* mapWithConcurrency: the shared counter (0-based)
  slots,          \* mapWithConcurrency: the results array (a hole is Nothing)
  workers,        \* mapWithConcurrency: per worker, its state and the index it holds
  fnCount,        \* history: per index, how often fn was invoked for it
  writeCount,     \* history: per index, how often its slot was written
  completed,      \* history: the indices (1-based) in the order their fn calls settled
  enriched,       \* what mapWithConcurrency returned
  persistIdx,     \* position of the loop over enriched (1-based)
  db,             \* the sourceRefs of the leads in the database
  leads,          \* created
  reply           \* the HTTP response

enrichVars == <<job, epc, items, idx, slots, workers, fnCount, writeCount, completed,
                enriched, persistIdx, db, leads, reply>>

vars == <<importVars, adapterVars, enrichVars>>

NoReply == [status |-> 0, created |-> 0, error |-> None]

EnrichIdle ==
  /\ job = [sent |-> FALSE] /\ epc = "idle" /\ items = <<>> /\ idx = 0 /\ slots = <<>>
  /\ workers = <<>> /\ fnCount = <<>> /\ writeCount = <<>> /\ completed = <<>>
  /\ enriched = <<>>
  /\ persistIdx = 0 /\ db = {} /\ leads = <<>> /\ reply = NoReply

NoProbe == [op |-> "", nets |-> <<>>]
NoReturn == [state |-> "none"]

AdapterIdle == probe = NoProbe /\ returned = NoReturn

\* what a step of the bulk import leaves unchanged
ImportFrame == UNCHANGED <<adapterVars, enrichVars>>

ModuleLevel(r) == "A"
Frame(r) == r

NoInput == [city |-> "", kind |-> "", target |-> 0, maxCalls |-> 0]
NoParams == [bbox |-> Nothing, tagFilters |-> <<>>, cityFallback |-> "", limit |-> 0, delayMs |-> Nothing]
NoResp == [places |-> <<>>, rateLimited |-> FALSE, threw |-> FALSE]
NoResponse == [status |-> 0, created |-> 0, callsMade |-> 0, finalDelayMs |-> 0]

ImportInit(reqs) ==
  /\ request \in reqs
  /\ world = [r \in Runs |-> [ok |-> 0, fresh |-> 0, faults |-> 0, handedOut |-> 0]]
  /\ pc = [r \in Runs |-> "idle"]
  /\ input = [r \in Runs |-> NoInput]
  /\ filterIdx = [r \in Runs |-> 0]
  /\ tileIdx = [r \in Runs |-> 0]
  /\ calls = [r \in Runs |-> 0]
  /\ delayMs = [r \in Runs |-> 0]
  /\ successStreak = [r \in Runs |-> 0]
  /\ seenRef = [r \in Runs |-> {}]
  /\ createdIds = [r \in Runs |-> 0]
  /\ params = [r \in Runs |-> NoParams]
  /\ sleptMs = [r \in Runs |-> 0]
  /\ resp = [r \in Runs |-> NoResp]
  /\ placeIdx = [r \in Runs |-> 0]
  /\ handed = [r \in Runs |-> <<>>]
  /\ log = [r \in Runs |-> <<>>]
  /\ response = [r \in Runs |-> NoResponse]

\* no request to the bulk import
ImportIdle == ImportInit({[r \in Runs |-> NoRequest]})

InitWith(reqs) == ImportInit(reqs) /\ AdapterIdle /\ EnrichIdle

\* one client: slot A serves a request, slot B none
Init ==
  InitWith({ [r \in Runs |-> IF r = "A" THEN q ELSE NoRequest] :
             q \in ShortRequests \cup MediumRequests \cup LongRequests \cup RejectedRequests })

\* two clients at once
InitPair == InitWith([Runs -> PairRequests])

(***************************************************************************)
(* The adaptive throttle: the feedback of one call's outcome.              *)
(***************************************************************************)
FailingRateOnly(res) == res.rateLimited
Failing(res) == res.rateLimited \/ Len(res.places) = 0

ThrottleLate(delay, streak, res) ==
  IF Failing(res)
  THEN [successStreak |-> 0, delayMs |-> Backoff(delay)]
  ELSE [successStreak |-> streak + 1,
        delayMs |-> IF streak + 1 > SpeedUpStreak THEN SpeedUp(delay) ELSE delay]

Throttle(delay, streak, res) ==
  IF Failing(res)
  THEN [successStreak |-> 0, delayMs |-> Backoff(delay)]
  ELSE [successStreak |-> streak + 1,
        delayMs |-> IF streak + 1 >= SpeedUpStreak THEN SpeedUp(delay) ELSE delay]

(***************************************************************************)
(* The loops of POST.                                                      *)
(***************************************************************************)
Filters(r) == tagFiltersFor(input[r].kind)

StopOnTargetOnly(r) ==
  \/ filterIdx[r] > Len(Filters(r))
  \/ createdIds[Frame(r)] >= input[r].target

\* the two break-outer checks, and the for-of loops running out
Stop(r) ==
  \/ filterIdx[r] > Len(Filters(r))
  \/ calls[Frame(r)] >= input[r].maxCalls
  \/ createdIds[Frame(r)] >= input[r].target

\* the next tile of the inner loop, or the first tile of the next filter group
NextFilterIdxStuck(r) == filterIdx[r]
NextFilterIdx(r) == IF tileIdx[r] < Len(Tiles) THEN filterIdx[r] ELSE filterIdx[r] + 1
NextTileIdx(r) == IF tileIdx[r] < Len(Tiles) THEN tileIdx[r] + 1 ELSE 1

EndOfIteration(r) ==
  /\ pc' = [pc EXCEPT ![r] = "loop"]
  /\ filterIdx' = [filterIdx EXCEPT ![r] = NextFilterIdx(r)]
  /\ tileIdx' = [tileIdx EXCEPT ![r] = NextTileIdx(r)]

\* requireApiKey, req.json, BodySchema.safeParse and the declarations before the loops
Start(r) ==
  /\ ImportFrame
  /\ pc[r] \in {"idle", "done"}
  /\ request[r].sent
  /\ world' = [world EXCEPT ![r] = [ok |-> request[r].world.ok, fresh |-> request[r].world.fresh,
                                    faults |-> request[r].world.faults, handedOut |-> 0]]
  /\ params' = [params EXCEPT ![r] = NoParams]
  /\ sleptMs' = [sleptMs EXCEPT ![r] = 0]
  /\ resp' = [resp EXCEPT ![r] = NoResp]
  /\ placeIdx' = [placeIdx EXCEPT ![r] = 0]
  /\ handed' = [handed EXCEPT ![r] = <<>>]
  /\ log' = [log EXCEPT ![r] = <<>>]
  /\ IF ~request[r].auth \/ ~BodySchemaOk(request[r].json)
     THEN /\ response' = [response EXCEPT ![r] =
                 [NoResponse EXCEPT !.status = IF ~request[r].auth THEN 401 ELSE 400]]
          /\ pc' = [pc EXCEPT ![r] = "done"]
          /\ input' = [input EXCEPT ![r] = NoInput]
          /\ filterIdx' = [filterIdx EXCEPT ![r] = 0]
          /\ tileIdx' = [tileIdx EXCEPT ![r] = 0]
          /\ UNCHANGED <<calls, delayMs, successStreak, seenRef, createdIds>>
     ELSE /\ response' = [response EXCEPT ![r] = NoResponse]
          /\ pc' = [pc EXCEPT ![r] = "loop"]
          /\ input' = [input EXCEPT ![r] = BodySchemaParse(request[r].json)]
          /\ filterIdx' = [filterIdx EXCEPT ![r] = 1]
          /\ tileIdx' = [tileIdx EXCEPT ![r] = 1]
          /\ createdIds' = [createdIds EXCEPT ![Frame(r)] = 0]
          /\ calls' = [calls EXCEPT ![Frame(r)] = 0]
          /\ delayMs' = [delayMs EXCEPT ![Frame(r)] = StartDelayMs]
          /\ successStreak' = [successStreak EXCEPT ![Frame(r)] = 0]
          /\ seenRef' = [seenRef EXCEPT ![Frame(r)] = {}]
  /\ UNCHANGED request

\* the head of an iteration: both budgets hold, calls += 1, searchOsmByBbox is called
\* and sleeps before its request
CallDelayStart(r) == Some(StartDelayMs)
CallDelay(r) == Some(delayMs[Frame(r)])

Call(r) ==
  /\ ImportFrame
  /\ pc[r] = "loop"
  /\ ~Stop(r)
  /\ calls' = [calls EXCEPT ![Frame(r)] = @ + 1]
  /\ params' = [params EXCEPT ![r] =
        [bbox |-> Some(Tiles[tileIdx[r]]), tagFilters |-> Filters(r)[filterIdx[r]],
         cityFallback |-> input[r].city, limit |-> BboxLimit, delayMs |-> CallDelay(r)]]
  /\ sleptMs' = [sleptMs EXCEPT ![r] = SleepFor(CallDelay(r))]
  /\ pc' = [pc EXCEPT ![r] = "request"]
  /\ UNCHANGED <<request, world, input, filterIdx, tileIdx, delayMs, successStreak, seenRef,
                 createdIds, resp, placeIdx, handed, log, response>>

\* what the server may answer to the request in progress, with what it costs the world
Answers(r) ==
  { [net |-> n, ok |-> 0, fresh |-> 0] : n \in EmptyNets \cup NullNets }
  \cup (IF world[r].ok > 0
        THEN { [net |-> Ok200(SmallElements), ok |-> 1, fresh |-> 0] }
        ELSE {})
  \cup (IF world[r].ok > 0 /\ world[r].fresh > 0
        THEN { [net |-> Ok200(FreshElements(world[r].handedOut)), ok |-> 1, fresh |-> 1] }
        ELSE {})
  \cup (IF world[r].ok > 0 /\ world[r].handedOut > 0
        THEN { [net |-> Ok200(FreshElements(world[r].handedOut - FreshLen)), ok |-> 1, fresh |-> 0] }
        ELSE {})

\* the results searchOsmByBbox may return for the call in progress
Results(r) ==
  { [res |-> searchOsmByBbox(a.net, params[r].cityFallback), ok |-> a.ok, fresh |-> a.fresh] :
    a \in Answers(r) }

\* the request completes: searchOsmByBbox returns, the throttle is fed, and the loop
\* over resp.places begins (or, with no place, the iteration ends)
Respond(r) ==
  /\ ImportFrame
  /\ pc[r] = "request"
  /\ \E a \in Results(r) :
       LET res == a.res
           t == Throttle(delayMs[Frame(r)], successStreak[Frame(r)], res)
       IN /\ ~res.threw
          /\ world' = [world EXCEPT ![r].ok = @ - a.ok, ![r].fresh = @ - a.fresh,
                                    ![r].handedOut = @ + a.fresh * FreshLen]
          /\ resp' = [resp EXCEPT ![r] = res]
          /\ delayMs' = [delayMs EXCEPT ![Frame(r)] = t.delayMs]
          /\ successStreak' = [successStreak EXCEPT ![Frame(r)] = t.successStreak]
          /\ log' = [log EXCEPT ![r] = Append(@,
                 [bbox |-> params[r].bbox, tagFilters |-> params[r].tagFilters,
                  slept |-> sleptMs[r], failing |-> Failing(res), delayMs |-> t.delayMs,
                  successStreak |-> t.successStreak, visited |-> <<>>])]
          /\ placeIdx' = [placeIdx EXCEPT ![r] = 1]
          /\ IF Len(res.places) = 0
             THEN EndOfIteration(r)
             ELSE /\ pc' = [pc EXCEPT ![r] = "places"]
                  /\ UNCHANGED <<filterIdx, tileIdx>>
  /\ UNCHANGED <<request, input, calls, seenRef, createdIds, params, sleptMs, handed, response>>

\* searchOsmByBbox rejects: nothing in POST catches it, the handler ends without its
\* response and the framework answers 500
Abort(r) ==
  /\ ImportFrame
  /\ pc[r] = "request"
  /\ \E a \in Results(r) : a.res.threw
  /\ response' = [response EXCEPT ![r] = [NoResponse EXCEPT !.status = 500]]
  /\ pc' = [pc EXCEPT ![r] = "done"]
  /\ UNCHANGED <<request, world, input, filterIdx, tileIdx, calls, delayMs, successStreak,
                 seenRef, createdIds, params, sleptMs, resp, placeIdx, handed, log>>

\* prisma.lead.create either returns the lead or throws
CreateOutcomes(r) == {"created"} \cup (IF world[r].faults > 0 THEN {"threw"} ELSE {})

AdmitAlways(seen, ref) == TRUE
Admit(seen, ref) == ref \notin seen

TargetNever(created, target) == FALSE
TargetMet(created, target) == created >= target

\* createdIds.push(lead.id) is reached only when prisma.lead.create returned
PushedAlways(outcome) == TRUE
Pushed(outcome) == outcome = "created"

\* one iteration of the loop over resp.places
Place(r) ==
  /\ ImportFrame
  /\ pc[r] = "places"
  /\ LET p == resp[r].places[placeIdx[r]]
         ref == RefOf(p)
         last == placeIdx[r] = Len(resp[r].places)
     IN IF TargetMet(createdIds[Frame(r)], input[r].target)
        THEN \* break
             /\ EndOfIteration(r)
             /\ UNCHANGED <<world, seenRef, createdIds, placeIdx, handed, log>>
        ELSE /\ log' = [log EXCEPT ![r][Len(log[r])].visited = Append(@, placeIdx[r])]
             /\ IF ~Admit(seenRef[Frame(r)], ref)
                THEN \* continue
                     UNCHANGED <<world, seenRef, createdIds, handed>>
                ELSE /\ seenRef' = [seenRef EXCEPT ![Frame(r)] = @ \cup {ref}]
                     /\ \E outcome \in CreateOutcomes(r) :
                          /\ handed' = [handed EXCEPT ![r] = Append(@,
                                [call |-> calls[Frame(r)], index |-> placeIdx[r], place |-> p,
                                 outcome |-> outcome])]
                          /\ IF Pushed(outcome)
                             THEN /\ createdIds' = [createdIds EXCEPT ![Frame(r)] = @ + 1]
                                  /\ UNCHANGED world
                             ELSE /\ world' = [world EXCEPT ![r].faults = @ - 1]
                                  /\ UNCHANGED createdIds
             /\ IF last
                THEN EndOfIteration(r) /\ UNCHANGED placeIdx
                ELSE /\ placeIdx' = [placeIdx EXCEPT ![r] = @ + 1]
                     /\ UNCHANGED <<pc, filterIdx, tileIdx>>
  /\ UNCHANGED <<request, input, calls, delayMs, successStreak, params, sleptMs, resp,
                 response>>

\* the JSON the handler returns
ReportedTarget(r) ==
  [status |-> 201, created |-> input[r].target, callsMade |-> calls[Frame(r)],
   finalDelayMs |-> delayMs[Frame(r)]]
Reported(r) ==
  [status |-> 201, created |-> createdIds[Frame(r)], callsMade |-> calls[Frame(r)],
   finalDelayMs |-> delayMs[Frame(r)]]

\* after the loops: logUsage and the JSON response
Return(r) ==
  /\ ImportFrame
  /\ pc[r] = "loop"
  /\ Stop(r)
  /\ response' = [response EXCEPT ![r] = Reported(r)]
  /\ pc' = [pc EXCEPT ![r] = "done"]
  /\ UNCHANGED <<request, world, input, filterIdx, tileIdx, calls, delayMs, successStreak,
                 seenRef, createdIds, params, sleptMs, resp, placeIdx, handed, log>>

Next ==
  \E r \in Runs : Start(r) \/ Call(r) \/ Respond(r) \/ Abort(r) \/ Place(r) \/ Return(r)

Spec == Init /\ [][Next]_vars

SpecPair == InitPair /\ [][Next]_vars

\* a run's handler goes on whenever the call it awaits has returned
Step(r) == Call(r) \/ Respond(r) \/ Abort(r) \/ Place(r) \/ Return(r)

\* one client whose run exhausts the call budget, meets the result budget, meets a
\* persistence failure, or is rejected
InitLive ==
  InitWith({ [r \in Runs |-> IF r = "A" THEN q ELSE NoRequest] :
             q \in ShortRequests \cup PairRequests \cup RejectedRequests })

SpecLive == InitLive /\ [][Next]_vars /\ \A r \in Runs : WF_vars(Step(r))

(***************************************************************************)
(* Part 2: the source adapters, one invocation at a time.  Besides the     *)
(* Overpass adapter above: Google Places (src/unnamed/part_004) and SerpAPI *)
(* (src/unnamed/part_003).  An invocation returns [state |-> "returned"]    *)
(* with its places, or throws: [state |-> "threw"].                         *)
(***************************************************************************)
Returned(places, rateLimited) == [state |-> "returned", places |-> places, rateLimited |-> rateLimited]
Threw == [state |-> "threw", places |-> <<>>, rateLimited |-> FALSE]

IsOk(net) == net.status >= 200 /\ net.status <= 299

\* Math.min(hi, Math.max(1, n ?? dflt))
ClampLimit(n, dflt, hi) == Min(hi, Max(1, IF IsSome(n) THEN Get(n) ELSE dflt))

Take(seq, n) == SubSeq(seq, 1, Min(n, Len(seq)))

BusinessLimitMax == 50
BusinessLimitDefault == 20

\* osm.ts searchOsmBusinesses
searchOsmBusinesses(net, city, limit) ==
  LET r == overpassRequest(net)
      lim == ClampLimit(limit, BusinessLimitDefault, BusinessLimitMax)
  IN IF ~r.ok THEN Returned(<<>>, FALSE)
     ELSE IF toPlacesThrows(Take(r.elements, lim)) THEN Threw
     ELSE Returned(toPlaces(Take(r.elements, lim), city), FALSE)

\* getJson of the Google and SerpAPI adapters: fetch and res.text() outside any catch,
\* throw on a status outside 200..299, JSON.parse
getJson(net) ==
  IF net.kind = "reject" THEN [threw |-> TRUE, json |-> Nothing]
  ELSE IF ~IsOk(net) THEN [threw |-> TRUE, json |-> Nothing]
  ELSE IF ~IsSome(net.json) THEN [threw |-> TRUE, json |-> Nothing]
  ELSE [threw |-> FALSE, json |-> net.json]

GoogleMaxDefault == 20
GoogleMaxCap == 60
GooglePages == 3

googleToPlace(r) == [placeId |-> r.place_id, name |-> r.name]

\* the loop over the pages of googleTextSearch, from page `page` with `places` collected
RECURSIVE googlePageLoop(_, _, _, _)
googlePageLoop(nets, page, places, max) ==
  IF ~(page < GooglePages /\ Len(places) < max) THEN [threw |-> FALSE, places |-> places]
  ELSE LET got == getJson(nets[page + 1])
       IN IF got.threw THEN [threw |-> TRUE, places |-> <<>>]
          ELSE LET json == Get(got.json)
               IN IF json.status # "OK" /\ json.status # "ZERO_RESULTS"
                  THEN [threw |-> TRUE, places |-> <<>>]
                  ELSE LET results == IF IsSome(json.results) THEN Get(json.results) ELSE <<>>
                           more == [i \in 1..Min(Len(results), max - Len(places)) |->
                                      googleToPlace(results[i])]
                       IN IF ~Truthy(json.next_page_token)
                          THEN [threw |-> FALSE, places |-> places \o more]
                          ELSE googlePageLoop(nets, page + 1, places \o more, max)

\* places.filter by a seen-set of placeId: the first occurrence of each stays
DedupeByPlaceId(places) ==
  LET keep == { i \in 1..Len(places) : \A j \in 1..(i - 1) : places[j].placeId # places[i].placeId }
      RECURSIVE pick(_)
      pick(i) == IF i > Len(places) THEN <<>>
                 ELSE IF i \in keep THEN <<places[i]>> \o pick(i + 1) ELSE pick(i + 1)
  IN pick(1)

googleTextSearch(nets, maxResults, hasKey) ==
  IF ~hasKey THEN Threw
  ELSE LET got == googlePageLoop(nets, 0, <<>>, ClampLimit(maxResults, GoogleMaxDefault, GoogleMaxCap))
       IN IF got.threw THEN Threw ELSE Returned(DedupeByPlaceId(got.places), FALSE)

googlePlaceDetails(net, hasKey) ==
  IF ~hasKey THEN Threw
  ELSE LET got == getJson(net)
       IN IF got.threw THEN Threw
          ELSE IF Get(got.json).status # "OK" THEN Threw
          ELSE IF ~IsSome(Get(got.json).result) THEN Threw
          ELSE Returned(<<googleToPlace(Get(Get(got.json).result))>>, FALSE)

SerpMaxDefault == 20
SerpMaxCap == 60

\* String.prototype.trim on the titles of the model's payloads
Trim(str) ==
  CASE str = " " -> ""
    [] str = " Cafe Ost " -> "Cafe Ost"
    [] OTHER -> str

toSourceRef(r) ==
  IF Truthy(r.place_id) THEN "place_id:" \o r.place_id
  ELSE IF Truthy(r.data_id) THEN "data_id:" \o r.data_id
  ELSE IF Truthy(r.cid) THEN "cid:" \o r.cid
  ELSE "name:" \o Trim(Coalesce(r.title, "unknown")) \o "|addr:" \o Trim(Coalesce(r.address, ""))

\* local_results mapped to places, the ones without a name filtered out
RECURSIVE serpPlaces(_)
serpPlaces(results) ==
  IF results = <<>> THEN <<>>
  ELSE LET r == Head(results)
           name == Trim(Coalesce(r.title, ""))
       IN IF name = "" THEN serpPlaces(Tail(results))
          ELSE <<[sourceRef |-> toSourceRef(r), name |-> name, website |-> r.website,
                  phone |-> r.phone, address |-> r.address]>>
               \o serpPlaces(Tail(results))

serpApiGoogleMapsSearch(net, maxResults, hasKey) ==
  IF ~hasKey THEN Threw
  ELSE LET got == getJson(net)
       IN IF got.threw THEN Threw
          ELSE IF Get(got.json).search_status # "Success" THEN Threw
          ELSE LET results == IF IsSome(Get(got.json).local_results)
                              THEN Get(Get(got.json).local_results) ELSE <<>>
               IN Returned(Take(serpPlaces(results), ClampLimit(maxResults, SerpMaxDefault, SerpMaxCap)),
                           FALSE)

(***************************************************************************)
(* What the providers may do with the request of one invocation.           *)
(***************************************************************************)
Reject == [kind |-> "reject", status |-> 0, text |-> <<>>, json |-> Nothing]

ErrorStatuses == {400, 403, 404, 429, 500, 502, 503, 504}

ErrorTexts ==
  {<<>>, TooManyText, RateLimitText, GatewayText, LongRateText, StraddleRateText, EdgeRateText}

OsmPayloads ==
  { Nothing, Some([elements |-> Nothing]), Some([elements |-> Some(<<>>)]),
    Some([elements |-> Some(NamelessElements)]), Some([elements |-> Some(SmallElements)]),
    Some([elements |-> Some(SmallElements \o <<NullElement>>)]) }

OsmNets ==
  {Reject}
  \cup { Http(st, text, Nothing) : st \in ErrorStatuses, text \in ErrorTexts }
  \cup { Http(200, <<>>, json) : json \in OsmPayloads }
  \cup { Http(200, RateLimitText, json) : json \in OsmPayloads }

GoogleResult(id, name) == [place_id |-> id, name |-> name]

GooglePage(status, results, token) ==
  Some([status |-> status, results |-> results, next_page_token |-> token, result |-> Nothing])

GoogleDetails(status, result) ==
  Some([status |-> status, results |-> Nothing, next_page_token |-> None, result |-> result])

GoogleSearchNets ==
  { Reject, Http(500, GatewayText, Nothing), Http(429, TooManyText, Nothing),
    Http(200, <<>>, Nothing),
    Http(200, <<>>, GooglePage("ZERO_RESULTS", Nothing, None)),
    Http(200, <<>>, GooglePage("OVER_QUERY_LIMIT", Nothing, None)),
    Http(200, <<>>, GooglePage("OK", Some(<<GoogleResult("p1", "Praxis Mitte"),
                                            GoogleResult("p2", "Praxis Sued")>>), "next")),
    Http(200, <<>>, GooglePage("OK", Some(<<GoogleResult("p2", "Praxis Sued"),
                                            GoogleResult("p3", "Praxis West")>>), None)) }

GoogleDetailsNets ==
  { Reject, Http(500, GatewayText, Nothing), Http(404, <<>>, Nothing), Http(200, <<>>, Nothing),
    Http(200, <<>>, GoogleDetails("NOT_FOUND", Nothing)),
    Http(200, <<>>, GoogleDetails("OK", Nothing)),
    Http(200, <<>>, GoogleDetails("OK", Some(GoogleResult("p1", "Praxis Mitte")))) }

SerpRow(title, place_id, website, phone, address) ==
  [title |-> title, place_id |-> place_id, data_id |-> None, cid |-> None,
   website |-> website, phone |-> phone, address |-> address]

SerpResult(title, place_id, address) == SerpRow(title, place_id, None, None, address)

SerpPayload(status, results) == Some([search_status |-> status, local_results |-> results])

SerpNets ==
  { Reject, Http(500, GatewayText, Nothing), Http(429, TooManyText, Nothing),
    Http(401, <<>>, Nothing), Http(200, <<>>, Nothing),
    Http(200, <<>>, SerpPayload("unknown", Nothing)),
    Http(200, <<>>, SerpPayload("Error", Nothing)),
    Http(200, <<>>, SerpPayload("Success", Nothing)),
    Http(200, <<>>, SerpPayload("Success", Some(<<SerpResult(" Cafe Ost ", "s1", None),
                                                  SerpResult(" ", None, None),
                                                  SerpResult("Cafe Ost", None, "Ringstr 2")>>))) }

Limits == {Nothing, Some(0), Some(1), Some(2)}

(***************************************************************************)
(* One invocation of an adapter operation against one provider behaviour.  *)
(***************************************************************************)
Probe(op, nets, limit, hasKey) == [op |-> op, nets |-> nets, limit |-> limit, hasKey |-> hasKey]

AdapterProbes ==
  { Probe("searchOsmByBbox", <<n>>, Nothing, TRUE) : n \in OsmNets }
  \cup { Probe("searchOsmBusinesses", <<n>>, l, TRUE) : n \in OsmNets, l \in Limits }
  \cup { Probe("googleTextSearch", <<a, b, c>>, l, k) :
           a \in GoogleSearchNets, b \in GoogleSearchNets, c \in GoogleSearchNets,
           l \in Limits, k \in BOOLEAN }
  \cup { Probe("googlePlaceDetails", <<n>>, Nothing, k) : n \in GoogleDetailsNets, k \in BOOLEAN }
  \cup { Probe("serpApiGoogleMapsSearch", <<n>>, l, k) : n \in SerpNets, l \in Limits, k \in BOOLEAN }

InitAdapter ==
  /\ ImportIdle /\ EnrichIdle
  /\ probe \in AdapterProbes
  /\ returned = NoReturn

Invoke(op, result) ==
  /\ probe.op = op
  /\ returned = NoReturn
  /\ returned' = result
  /\ UNCHANGED <<importVars, enrichVars, probe>>

InvokeBbox ==
  Invoke("searchOsmByBbox",
         LET res == searchOsmByBbox(probe.nets[1], "Berlin")
         IN IF res.threw THEN Threw ELSE Returned(res.places, res.rateLimited))

InvokeBusinesses ==
  Invoke("searchOsmBusinesses", searchOsmBusinesses(probe.nets[1], "Berlin", probe.limit))

InvokeTextSearch ==
  Invoke("googleTextSearch", googleTextSearch(probe.nets, probe.limit, probe.hasKey))

InvokeDetails ==
  Invoke("googlePlaceDetails", googlePlaceDetails(probe.nets[1], probe.hasKey))

InvokeSerp ==
  Invoke("serpApiGoogleMapsSearch",
         serpApiGoogleMapsSearch(probe.nets[1], probe.limit, probe.hasKey))

NextAdapter ==
  InvokeBbox \/ InvokeBusinesses \/ InvokeTextSearch \/ InvokeDetails \/ InvokeSerp

SpecAdapter == InitAdapter /\ [][NextAdapter]_vars

(***************************************************************************)
(* Part 3: the contact-page scraper (src/unnamed/part_002) and the         *)
(* discover import that enriches places with it under a worker pool       *)
(* (src/src/app/api/discover/osm/import/route.ts, lines 75-181).           *)
(*                                                                         *)
(* The web: what new URL makes of a website string, and what fetchHtml     *)
(* followed by the extraction finds at a URL.  A page is Nothing when      *)
(* fetchHtml returns null or an empty body; otherwise it holds what the    *)
(* four extractors return, each None or the non-empty text matched.        *)
(***************************************************************************)
IMPRESSUM_PATHS == <<"/impressum", "/kontakt", "/imprint", "/legal", "/about", "/ueber-uns">>

\* new URL(normalizeUrl(website)): whether it parses, its origin, and the origin of the
\* www. variant (None when the hostname starts with www. already)
ParseUrl(website) ==
  CASE website = "https://mitte.example" ->
         [valid |-> TRUE, origin |-> "https://mitte.example", www |-> "https://www.mitte.example"]
    [] website = " nord.example " ->
         [valid |-> TRUE, origin |-> "https://nord.example", www |-> "https://www.nord.example"]
    [] website = "www.sued.example" ->
         [valid |-> TRUE, origin |-> "https://www.sued.example", www |-> None]
    [] website = "http://down.example" ->
         [valid |-> TRUE, origin |-> "http://down.example", www |-> "http://www.down.example"]
    [] OTHER -> [valid |-> FALSE, origin |-> None, www |-> None]

\* fetchHtml(url) and the extraction from the page's text
Extracted(url) ==
  LET Page(email, phone, owner, address) ==
        Some([email |-> email, phone |-> phone, owner |-> owner, address |-> address])
  IN CASE url = "https://mitte.example/impressum" -> Page(None, None, None, None)
       [] url = "https://mitte.example/kontakt" ->
            Page("info@mitte.example", "030 123456", None, None)
       [] url = "https://mitte.example/imprint" ->
            Page("legal@mitte.example", None, "Dr. Anna Mitte", "Hauptstrasse 1, 10115 Berlin")
       [] url = "https://www.nord.example/ueber-uns" -> Page(None, None, "Bernd Nord", None)
       [] url = "https://www.sued.example/legal" -> Page(None, None, None, "Suedweg 5")
       [] OTHER -> Nothing

Candidates(u) ==
  [i \in 1..Len(IMPRESSUM_PATHS) |-> u.origin \o IMPRESSUM_PATHS[i]]
  \o (IF u.www # None THEN [i \in 1..Len(IMPRESSUM_PATHS) |-> u.www \o IMPRESSUM_PATHS[i]]
      ELSE <<>>)

EmptyImpressum ==
  [owner |-> None, email |-> None, phone |-> None, address |-> None, sourceUrl |-> None]

\* the loop of scrapeImpressum over its candidates, from candidate i
RECURSIVE ScrapeFrom(_, _)
ScrapeFrom(candidates, i) ==
  IF i > Len(candidates) THEN EmptyImpressum
  ELSE LET page == Extracted(candidates[i])
       IN IF ~IsSome(page) THEN ScrapeFrom(candidates, i + 1)
          ELSE LET x == Get(page)
               IN IF Truthy(x.email) \/ Truthy(x.phone) \/ Truthy(x.owner) \/ Truthy(x.address)
                  THEN [owner |-> x.owner, email |-> x.email, phone |-> x.phone,
                        address |-> x.address, sourceUrl |-> candidates[i]]
                  ELSE ScrapeFrom(candidates, i + 1)

\* scrapeImpressum: rejects when new URL throws
scrapeImpressum(website) ==
  LET u == ParseUrl(website)
  IN IF ~u.valid THEN [threw |-> TRUE, imp |-> EmptyImpressum]
     ELSE [threw |-> FALSE, imp |-> ScrapeFrom(Candidates(u), 1)]

(***************************************************************************)
(* The discover import.  Its requests, each with its environment: the      *)
(* SerpAPI answer, the sourceRefs already in the database and how often    *)
(* prisma.lead.create may throw.                                           *)
(***************************************************************************)
\* longest result list of the provider
MaxItems == 6
\* persistence failures per request
MaxCreateFaults == 1

DiscoverLimitMin == 1
DiscoverLimitMax == 50
DiscoverLimitDefault == 20
Concurrency == 4

RowKinds == 5

\* the i-th row of a provider answer whose kinds are shifted by `shift` (with shift =
\* RowKinds every row is of the first kind); with `dup` the last row repeats the
\* place_id of the first
SerpRowAt(i, n, shift, dup) ==
  LET id == IF dup /\ i = n /\ n > 1 THEN "s1" ELSE "s" \o ToString(i)
      k == IF shift = RowKinds THEN 0 ELSE (i + shift) % RowKinds
  IN CASE k = 0 -> SerpRow("Praxis Mitte", id, "https://mitte.example", "030 111111", "Altbau 1")
       [] k = 1 -> SerpRow("Ohne Web", id, None, "030 222222", None)
       [] k = 2 -> SerpRow("Kaputt", id, "http://", "030 333333", "Kaputtweg 3")
       [] k = 3 -> SerpRow("Nord", id, " nord.example ", None, "Ringstr 2")
       [] OTHER -> SerpRow("Down", id, "http://down.example", "030 555555", None)

SerpRows(n, shift, dup) == [i \in 1..n |-> SerpRowAt(i, n, shift, dup)]

\* the kinds of answer and environment: rows shifted, with or without a repeated
\* place_id, a lead of the answer already in the database, create throwing
JobVariants ==
  { [shift |-> sh, dup |-> FALSE, existing |-> {}, faults |-> 0] : sh \in 0..RowKinds }
  \cup { [shift |-> 0, dup |-> TRUE, existing |-> {}, faults |-> 0],
         [shift |-> 1, dup |-> FALSE, existing |-> {"place_id:s2"}, faults |-> 0],
         [shift |-> 2, dup |-> FALSE, existing |-> {}, faults |-> MaxCreateFaults] }

Jobs ==
  LET DiscoverBody(city, limit) == Some([city |-> city, limit |-> limit])
      Job(json, net, hasKey, existing, faults) ==
        [sent |-> TRUE, json |-> json, net |-> net, hasKey |-> hasKey, existing |-> existing,
         faults |-> faults]
      Found(rows) == Http(200, <<>>, SerpPayload("Success", Some(rows)))
  IN { Job(DiscoverBody("Berlin", Nothing), Found(SerpRows(n, v.shift, v.dup)), TRUE,
           v.existing, v.faults) :
         n \in 0..MaxItems, v \in JobVariants }
     \cup { Job(DiscoverBody("Berlin", Some(2)), Found(SerpRows(3, 0, FALSE)), TRUE, {}, 0),
             Job(DiscoverBody("Berlin", Nothing), Http(500, GatewayText, Nothing), TRUE, {}, 0),
             Job(DiscoverBody("Berlin", Nothing), Found(SerpRows(1, 0, FALSE)), FALSE, {}, 0),
             Job(DiscoverBody("", Nothing), Reject, TRUE, {}, 0),
             Job(DiscoverBody("Berlin", Some(DiscoverLimitMax + 1)), Reject, TRUE, {}, 0),
             Job(Nothing, Reject, TRUE, {}, 0) }

DiscoverSchemaOk(json) ==
  /\ IsSome(json)
  /\ Get(json).city # None /\ Get(json).city # ""
  /\ \/ ~IsSome(Get(json).limit)
     \/ (Get(Get(json).limit) >= DiscoverLimitMin /\ Get(Get(json).limit) <= DiscoverLimitMax)

(***************************************************************************)
(* The enrichment callback and the lead built from its result.             *)
(***************************************************************************)
fnNoCatch(p) ==
  IF ~Truthy(p.website) THEN [threw |-> FALSE, value |-> [place |-> p, imp |-> Nothing]]
  ELSE LET got == scrapeImpressum(p.website)
       IN [threw |-> got.threw, value |-> [place |-> p, imp |-> Some(got.imp)]]

\* the callback given to mapWithConcurrency: scrapeImpressum(...).catch(() => ({}))
fn(p) ==
  IF ~Truthy(p.website) THEN [threw |-> FALSE, value |-> [place |-> p, imp |-> Nothing]]
  ELSE LET got == scrapeImpressum(p.website)
       IN [threw |-> FALSE,
           value |-> [place |-> p, imp |-> Some(IF got.threw THEN EmptyImpressum ELSE got.imp)]]

\* imp?.field
ImpField(imp, field) == IF IsSome(imp) THEN Get(imp)[field] ELSE None

\* the data of prisma.lead.create
LeadOf(e) ==
  [sourceRef |-> e.place.sourceRef,
   companyName |-> e.place.name,
   website |-> e.place.website,
   phone |-> Coalesce(ImpField(e.imp, "phone"), e.place.phone),
   email |-> ImpField(e.imp, "email"),
   owner |-> ImpField(e.imp, "owner"),
   address |-> Coalesce(ImpField(e.imp, "address"), e.place.address),
   impressum |-> ImpField(e.imp, "sourceUrl")]

(***************************************************************************)
(* mapWithConcurrency and the POST around it.  JavaScript runs each        *)
(* worker without interruption between two awaits, so a step of a worker   *)
(* is: its awaited fn call settles, it stores the result, tests the loop   *)
(* condition, claims the next index and calls fn for it.                   *)
(***************************************************************************)
WorkerCountPerItem(n, concurrency) == Max(1, n)
\* Array.from({ length: Math.max(1, concurrency) }, ...)
WorkerCount(n, concurrency) == Max(1, concurrency)

NextIdxStale(i) == i
\* idx++
NextIdx(i) == i + 1

SlotByCompletion(current, written) == written + 1
\* results[current] = ..., as a 1-based position
SlotOf(current, written) == current + 1

Awaiting(current) == [state |-> "awaiting", current |-> current]
WorkerDone == [state |-> "done", current |-> 0]

\* the workers as Array.from leaves them: created one after the other, each running up
\* to its first await; `made` are the workers created so far, `i` the counter
RECURSIVE CreateWorkers(_, _, _, _)
CreateWorkers(made, i, n, count) ==
  IF Len(made) = count THEN [workers |-> made, idx |-> i]
  ELSE IF i < n THEN CreateWorkers(Append(made, Awaiting(i)), NextIdx(i), n, count)
  ELSE CreateWorkers(Append(made, WorkerDone), i, n, count)

Bump(counts, i) == [counts EXCEPT ![i] = @ + 1]

RECURSIVE BumpAll(_, _)
BumpAll(counts, ws) ==
  IF ws = <<>> THEN counts
  ELSE BumpAll(IF Head(ws).state = "awaiting" THEN Bump(counts, Head(ws).current + 1) ELSE counts,
               Tail(ws))

Written == Cardinality({ i \in 1..Len(slots) : IsSome(slots[i]) })

InitEnrich ==
  /\ ImportIdle /\ AdapterIdle
  /\ job \in Jobs
  /\ epc = "idle" /\ items = <<>> /\ idx = 0 /\ slots = <<>>
  /\ workers = <<>> /\ fnCount = <<>> /\ writeCount = <<>> /\ completed = <<>>
  /\ enriched = <<>>
  /\ persistIdx = 0 /\ db = {} /\ leads = <<>> /\ reply = NoReply

EnrichFrame == UNCHANGED <<importVars, adapterVars, job>>

\* the response; `error` is the message of what was caught (None without an error)
Finish(status, error) ==
  /\ epc' = "done"
  /\ reply' = [status |-> status, created |-> IF status = 201 THEN Len(leads') ELSE 0,
               error |-> error]

\* req.json and BodySchema.safeParse, up to the await of serpApiGoogleMapsSearch
DiscoverStart ==
  /\ epc = "idle" /\ job.sent
  /\ EnrichFrame
  /\ db' = job.existing
  /\ UNCHANGED <<items, idx, slots, workers, fnCount, writeCount, completed, enriched,
                 persistIdx, leads>>
  /\ IF ~DiscoverSchemaOk(job.json)
     THEN Finish(400, "Invalid payload")
     ELSE epc' = "search" /\ UNCHANGED reply

\* serpApiGoogleMapsSearch settles; with results, mapWithConcurrency is called and
\* creates its workers
DiscoverSearch ==
  /\ epc = "search"
  /\ EnrichFrame
  /\ LET limit == Get(job.json).limit
         got == serpApiGoogleMapsSearch(job.net,
                   Some(IF IsSome(limit) THEN Get(limit) ELSE DiscoverLimitDefault), job.hasKey)
         n == Len(got.places)
         made == CreateWorkers(<<>>, 0, n, WorkerCount(n, Concurrency))
     IN IF got.state = "threw"
        THEN /\ Finish(500, "SerpAPI")
             /\ UNCHANGED <<items, idx, slots, workers, fnCount, writeCount, completed,
                            enriched, persistIdx, db, leads>>
        ELSE IF n = 0
        THEN /\ Finish(200, None)
             /\ UNCHANGED <<items, idx, slots, workers, fnCount, writeCount, completed,
                            enriched, persistIdx, db, leads>>
        ELSE /\ items' = got.places
             /\ slots' = [i \in 1..n |-> Nothing]
             /\ workers' = made.workers
             /\ idx' = made.idx
             /\ fnCount' = BumpAll([i \in 1..n |-> 0], made.workers)
             /\ writeCount' = [i \in 1..n |-> 0]
             /\ epc' = "pool"
             /\ UNCHANGED <<completed, enriched, persistIdx, db, leads, reply>>

\* the awaited fn call of worker w settles: the worker stores the result and goes round
\* its loop; when the last worker ends, Promise.all resolves and POST has `enriched`
Complete(w) ==
  /\ epc = "pool"
  /\ w \in 1..Len(workers)
  /\ workers[w].state = "awaiting"
  /\ EnrichFrame
  /\ LET current == workers[w].current
         got == fn(items[current + 1])
         stored == [slots EXCEPT ![SlotOf(current, Written)] = Some(got.value)]
         more == idx < Len(items)
         after == [workers EXCEPT ![w] = IF more THEN Awaiting(idx) ELSE WorkerDone]
     IN IF got.threw
        THEN \* the worker rejects, and with it Promise.all and the await in POST
             /\ Finish(500, "Invalid URL")
             /\ workers' = [workers EXCEPT ![w] = WorkerDone]
             /\ UNCHANGED <<items, idx, slots, fnCount, writeCount, completed, enriched,
                            persistIdx, db, leads>>
        ELSE /\ slots' = stored
             /\ completed' = Append(completed, current + 1)
             /\ writeCount' = Bump(writeCount, SlotOf(current, Written))
             /\ workers' = after
             /\ idx' = IF more THEN NextIdx(idx) ELSE idx
             /\ fnCount' = IF more THEN Bump(fnCount, idx + 1) ELSE fnCount
             /\ IF \A v \in 1..Len(after) : after[v].state = "done"
                THEN /\ enriched' = stored
                     /\ persistIdx' = 1
                     /\ epc' = "persist"
                ELSE UNCHANGED <<enriched, persistIdx, epc>>
             /\ UNCHANGED <<items, db, leads, reply>>

\* prisma.lead.create either returns the lead or throws
CreateFails == IF job.faults > 0 THEN {FALSE, TRUE} ELSE {FALSE}

\* one iteration of the loop over enriched: findFirst, then create unless a lead with
\* the sourceRef exists; after the last one, the response
Persist ==
  /\ epc = "persist"
  /\ EnrichFrame
  /\ UNCHANGED <<items, idx, slots, workers, fnCount, writeCount, completed, enriched>>
  /\ LET e == enriched[persistIdx]
         last == persistIdx = Len(enriched)
     IN IF ~IsSome(e)
        THEN \* destructuring a hole throws
             Finish(500, "TypeError") /\ UNCHANGED <<persistIdx, db, leads>>
        ELSE IF Get(e).place.sourceRef \in db
        THEN /\ UNCHANGED <<db, leads>>
             /\ IF last THEN Finish(201, None) /\ UNCHANGED persistIdx
                ELSE persistIdx' = persistIdx + 1 /\ UNCHANGED <<epc, reply>>
        ELSE \E fails \in CreateFails :
               IF fails
               THEN Finish(500, "prisma") /\ UNCHANGED <<persistIdx, db, leads>>
               ELSE /\ leads' = Append(leads, LeadOf(Get(e)))
                    /\ db' = db \cup {Get(e).place.sourceRef}
                    /\ IF last THEN Finish(201, None) /\ UNCHANGED persistIdx
                       ELSE persistIdx' = persistIdx + 1 /\ UNCHANGED <<epc, reply>>

NextEnrich ==
  \/ DiscoverStart
  \/ DiscoverSearch
  \/ \E w \in 1..Max(Concurrency, MaxItems) : Complete(w)
  \/ Persist

SpecEnrich == InitEnrich /\ [][NextEnrich]_vars

(***************************************************************************)
(* Part 4.  The lead enrichment route, POST /api/v1/leads/enrich: the      *)
(* stored lead is looked up, its website scraped and the lead updated.     *)
(***************************************************************************)
enrichLeadDataOverwrite(lead, data) ==
  [lead EXCEPT !.email = data.email, !.phone = data.phone, !.address = data.address,
               !.owner = data.owner]

\* the data of prisma.lead.update applied to the stored lead
enrichLeadData(lead, data) ==
  [lead EXCEPT
     !.email = Coalesce(data.email, lead.email),
     !.phone = Coalesce(data.phone, lead.phone),
     !.address = Coalesce(data.address, lead.address),
     !.owner = Coalesce(data.owner, lead.owner),
     !.notes = IF Truthy(data.sourceUrl)
               THEN (IF Truthy(lead.notes) THEN lead.notes \o "\n" ELSE "")
                    \o "Enriched from: " \o data.sourceUrl
               ELSE lead.notes]

\* the handler: req.auth is whether the API key resolves, req.leadId the leadId of the
\* body (None when the body does not parse), req.lead what findFirst returns
enrichLead(req) ==
  LET LeadReply(status, lead) == [state |-> "returned", status |-> status, lead |-> lead]
      LeadRejected == [state |-> "threw", status |-> 0, lead |-> Nothing]
  IN IF ~req.auth THEN LeadReply(401, Nothing)
     ELSE IF ~Truthy(req.leadId) THEN LeadReply(400, Nothing)
     ELSE IF ~IsSome(req.lead) THEN LeadReply(404, Nothing)
     ELSE IF ~Truthy(Get(req.lead).website) THEN LeadReply(400, Nothing)
     ELSE LET got == scrapeImpressum(Get(req.lead).website)
          IN IF got.threw THEN LeadRejected
             ELSE LeadReply(200, Some(enrichLeadData(Get(req.lead), got.imp)))

\* the leads findFirst may return: each field absent or populated, the website one of
\* the modelled web, absent, empty or unparsable
StoredLeads ==
  LET Websites == {None, "", "https://mitte.example", " nord.example ", "www.sued.example",
                   "http://down.example", "http://"}
  IN { [website |-> w, email |-> e, phone |-> p, address |-> a, owner |-> o, notes |-> n] :
         w \in Websites, e \in {None, "", "alt@praxis.example"}, p \in {None, "030 999999"},
         a \in {None, "Alte Str. 9"}, o \in {None, "Alt Inhaber"}, n \in {None, "Notiz"} }

LeadProbes ==
  LET LeadProbe(auth, leadId, lead) ==
        [op |-> "enrichLead", auth |-> auth, leadId |-> leadId, lead |-> lead]
  IN { LeadProbe(TRUE, "lead-1", Some(l)) : l \in StoredLeads }
     \cup { LeadProbe(FALSE, "lead-1", Nothing), LeadProbe(TRUE, None, Nothing),
             LeadProbe(TRUE, "", Nothing), LeadProbe(TRUE, "lead-2", Nothing) }

InitLead ==
  /\ ImportIdle /\ EnrichIdle
  /\ probe \in LeadProbes
  /\ returned = NoReturn

InvokeEnrichLead == Invoke("enrichLead", enrichLead(probe))

\* the two places where an enrichment result is merged: the discover import running
\* on one request, or the lead enrichment route on one
SpecMerge == (InitEnrich \/ InitLead) /\ [][NextEnrich \/ InvokeEnrichLead]_vars

(***************************************************************************)
(* Part 5.  guessEmails.  Text is a sequence of characters here, so that   *)
(* lower-casing, stripping and the first letter of a name are computed.    *)
(* An absent field and an empty one take the same branches of the code     *)
(* (each is tested for truthiness), so an absent field is the empty text.  *)
(***************************************************************************)
Chars(seq) == { seq[i] : i \in 1..Len(seq) }

\* normalize("NFKD") followed by the removal of the combining marks, one character
StripMarks(c) ==
  CASE c = "ü" -> "u" [] c = "ö" -> "o" [] c = "ä" -> "a" [] c = "é" -> "e" [] OTHER -> c

IsSpace(c) == c \in {" ", "\t", "\n"}
\* the characters of the class a-z0-9
Alnum == Chars(LowerChars) \cup {"0", "1", "2", "3", "4", "5", "6", "7", "8", "9"}

\* s without its leading and trailing characters of the set out
Strip(s, out) ==
  LET keep == { i \in 1..Len(s) : s[i] \notin out }
  IN IF keep = {} THEN <<>>
     ELSE SubSeq(s, CHOOSE i \in keep : \A j \in keep : i <= j,
                    CHOOSE i \in keep : \A j \in keep : i >= j)

\* String.prototype.trim
TrimText(s) == Strip(s, {" ", "\t", "\n"})

\* replace(/[^a-z0-9]+/g, " "): `inRun` says the previous character was replaced
RECURSIVE SquashOthers(_, _)
SquashOthers(s, inRun) ==
  IF s = <<>> THEN <<>>
  ELSE IF Head(s) \in Alnum THEN <<Head(s)>> \o SquashOthers(Tail(s), FALSE)
  ELSE IF inRun THEN SquashOthers(Tail(s), TRUE)
  ELSE <<" ">> \o SquashOthers(Tail(s), TRUE)

\* replace(/\s+/g, "-")
RECURSIVE Hyphenate(_, _)
Hyphenate(s, inRun) ==
  IF s = <<>> THEN <<>>
  ELSE IF ~IsSpace(Head(s)) THEN <<Head(s)>> \o Hyphenate(Tail(s), FALSE)
  ELSE IF inRun THEN Hyphenate(Tail(s), TRUE)
  ELSE <<"-">> \o Hyphenate(Tail(s), TRUE)

\* the replace of line 36 looks for a capital letter after toLowerCase and never matches
slug(s) ==
  LET lowered == toLowerCase(TrimText(s))
      plain == [i \in 1..Len(lowered) |-> StripMarks(lowered[i])]
  IN Hyphenate(TrimText(SquashOthers(plain, FALSE)), FALSE)

toLocalAtom(s) == SelectSeq(slug(s), LAMBDA c : c # "-")

\* split(/\s+/).filter(Boolean): the words of s; `word` is the word being read
RECURSIVE Words(_, _)
Words(s, word) ==
  IF s = <<>> THEN (IF word = <<>> THEN <<>> ELSE <<word>>)
  ELSE IF IsSpace(Head(s))
       THEN (IF word = <<>> THEN <<>> ELSE <<word>>) \o Words(Tail(s), <<>>)
  ELSE Words(Tail(s), Append(word, Head(s)))

\* join(" ")
RECURSIVE JoinWords(_)
JoinWords(ws) ==
  IF ws = <<>> THEN <<>>
  ELSE IF Len(ws) = 1 THEN ws[1]
  ELSE ws[1] \o <<" ">> \o JoinWords(Tail(ws))

nameParts(given) ==
  LET first == TrimText(given.firstName)
      last == TrimText(given.lastName)
      full == TrimText(given.fullName)
      parts == Words(full, <<>>)
  IN IF first # <<>> \/ last # <<>> THEN [first |-> first, last |-> last]
     ELSE IF full = <<>> THEN [first |-> <<>>, last |-> <<>>]
     ELSE IF Len(parts) = 1 THEN [first |-> parts[1], last |-> <<>>]
     ELSE [first |-> parts[1], last |-> JoinWords(Tail(parts))]

\* punycode.toASCII: a host of ASCII characters is left as it is
toASCII(host) ==
  IF host = <<"m", "ü", "l", "l", "e", "r", ".", "d", "e">>
  THEN <<"x", "n", "-", "-", "m", "l", "l", "e", "r", "-", "k", "v", "a", ".", "d", "e">>
  ELSE host

\* normalizeDomain: Nothing for null
normalizeDomain(domain) ==
  LET StartsWith(t, prefix) == Len(t) >= Len(prefix) /\ SubSeq(t, 1, Len(prefix)) = prefix
      Drop(t, n) == SubSeq(t, n + 1, Len(t))
      d == toLowerCase(TrimText(domain))
      withoutProto ==
        IF StartsWith(d, <<"h", "t", "t", "p", "s", ":", "/", "/">>) THEN Drop(d, 8)
        ELSE IF StartsWith(d, <<"h", "t", "t", "p", ":", "/", "/">>) THEN Drop(d, 7)
        ELSE d
      slashes == { i \in 1..Len(withoutProto) : withoutProto[i] = "/" }
      host == IF slashes = {} THEN withoutProto
              ELSE SubSeq(withoutProto, 1, (CHOOSE i \in slashes : \A j \in slashes : i <= j) - 1)
      clean == IF StartsWith(host, <<"w", "w", "w", ".">>) THEN Drop(host, 4) ELSE host
  IN IF d = <<>> THEN Nothing
     ELSE IF "." \notin Chars(clean) THEN Nothing
     ELSE Some(toASCII(clean))

\* replace(/\.\.+/g, ".")
RECURSIVE CollapseDots(_)
CollapseDots(s) ==
  IF Len(s) < 2 THEN s
  ELSE IF s[1] = "." /\ s[2] = "." THEN CollapseDots(Tail(s))
  ELSE <<s[1]>> \o CollapseDots(Tail(s))

\* the normalisation of a local part, lines 92-96
normalizeLocal(local) ==
  LET allowed == Alnum \cup {".", "_", "+", "-"}
      kept == SelectSeq(toLowerCase(local), LAMBDA c : c \in allowed)
  IN CollapseDots(Strip(kept, {"."}))

\* the table of patterns, in the order of its declaration; a local of <<>> stands for
\* null and for the empty string, which are skipped alike
Patterns(f, l, companyToken) ==
  LET fi == IF f # <<>> THEN <<f[1]>> ELSE <<>>
      li == IF l # <<>> THEN <<l[1]>> ELSE <<>>
      Both(a, b, made) == IF a # <<>> /\ b # <<>> THEN made ELSE <<>>
      GuessPattern(pattern, local, score) ==
        [pattern |-> pattern, local |-> local, score |-> score]
  IN << GuessPattern("first.last", Both(f, l, f \o <<".">> \o l), 100),
        GuessPattern("firstlast", Both(f, l, f \o l), 96),
        GuessPattern("f.last", Both(fi, l, fi \o <<".">> \o l), 94),
        GuessPattern("first.l", Both(f, li, f \o <<".">> \o li), 90),
        GuessPattern("first", f, 70),
        GuessPattern("last", l, 65),
        GuessPattern("flast", Both(fi, l, fi \o l), 88),
        GuessPattern("firstl", Both(f, li, f \o li), 84),
        GuessPattern("f.l", Both(fi, li, fi \o <<".">> \o li), 78),
        GuessPattern("info", <<"i", "n", "f", "o">>, 30),
        GuessPattern("kontakt", <<"k", "o", "n", "t", "a", "k", "t">>, 28),
        GuessPattern("hello", <<"h", "e", "l", "l", "o">>, 24),
        GuessPattern("office", <<"o", "f", "f", "i", "c", "e">>, 22),
        GuessPattern("company", companyToken, 18) >>

\* the loop over the patterns from pattern i, with the addresses seen and the
\* candidates pushed so far
RECURSIVE GuessLoop(_, _, _, _, _, _)
GuessLoop(patterns, i, domain, seen, candidates, limit) ==
  IF i > Len(patterns) THEN candidates
  ELSE LET p == patterns[i]
           normalizedLocal == normalizeLocal(p.local)
           email == normalizedLocal \o <<"@">> \o domain
           pushed == Append(candidates,
                            [email |-> email, localPart |-> normalizedLocal, domain |-> domain,
                             pattern |-> p.pattern, score |-> p.score])
       IN IF p.local = <<>> \/ normalizedLocal = <<>> \/ email \in seen
          THEN GuessLoop(patterns, i + 1, domain, seen, candidates, limit)
          ELSE IF Len(pushed) >= limit THEN pushed
          ELSE GuessLoop(patterns, i + 1, domain, seen \cup {email}, pushed, limit)

SortByScoreNot(cs) == cs

\* Array.prototype.sort((a, b) => b.score - a.score): stable, by descending score
RECURSIVE InsertByScore(_, _)
InsertByScore(sorted, c) ==
  IF sorted = <<>> THEN <<c>>
  ELSE IF Head(sorted).score >= c.score THEN <<Head(sorted)>> \o InsertByScore(Tail(sorted), c)
  ELSE <<c>> \o sorted

RECURSIVE SortByScore(_)
SortByScore(cs) ==
  IF cs = <<>> THEN <<>>
  ELSE InsertByScore(SortByScore(SubSeq(cs, 1, Len(cs) - 1)), cs[Len(cs)])

GuessLimitDefault == 15

guessEmails(given, limit) ==
  LET domain == IF given.domain # <<>> THEN normalizeDomain(given.domain) ELSE Nothing
      parts == nameParts(given)
      f == IF parts.first # <<>> THEN toLocalAtom(parts.first) ELSE <<>>
      l == IF parts.last # <<>> THEN toLocalAtom(parts.last) ELSE <<>>
      companyToken == IF given.companyName # <<>> THEN toLocalAtom(given.companyName) ELSE <<>>
  IN IF ~IsSome(domain) THEN <<>>
     ELSE SortByScore(GuessLoop(Patterns(f, l, companyToken), 1, Get(domain), {}, <<>>,
                                IF IsSome(limit) THEN Get(limit) ELSE GuessLimitDefault))

\* largest explicit limit
MaxGuessLimit == 6

\* the inputs: names with capitals, blanks, an umlaut and several words, domains given
\* bare, as a URL, without a dot and with an umlaut
GuessInputs ==
  LET Anna == <<"A", "n", "n", "a">>
      InitialA == <<"A">>
      Amitte == <<"A", "m", "i", "t", "t", "e">>
      Blank == <<" ">>
      Mitte == <<"M", "i", "t", "t", "e">>
      Mueller == <<"M", "ü", "l", "l", "e", "r">>
      AnnaMitte == <<"A", "n", "n", "a", " ", "M", "i", "t", "t", "e">>
      AnnaVonMitte == <<" ", "A", "n", "n", "a", " ", " ", "v", "o", "n", " ", "M", "i", "t", "t", "e">>
      PraxisMitte == <<"P", "r", "a", "x", "i", "s", " ", "M", "i", "t", "t", "e", " ", "G", "m", "b", "H">>
      InfoCompany == <<"I", "n", "f", "o">>
      ExampleCom == <<"e", "x", "a", "m", "p", "l", "e", ".", "c", "o", "m">>
      ExampleUrl == <<"h", "t", "t", "p", "s", ":", "/", "/", "w", "w", "w", ".", "E", "x", "a", "m", "p", "l", "e", ".", "c", "o", "m", "/", "k", "o", "n", "t", "a", "k", "t">>
      Localhost == <<"l", "o", "c", "a", "l", "h", "o", "s", "t">>
      MuellerDe == <<"M", "ü", "l", "l", "e", "r", ".", "d", "e">>
  IN { [firstName |-> fn1, lastName |-> ln, fullName |-> full, domain |-> d,
        companyName |-> c] :
         fn1 \in {<<>>, Anna, InitialA, Amitte, Blank},
         ln \in {<<>>, Mitte, Mueller},
         full \in {<<>>, Anna, AnnaMitte, AnnaVonMitte},
         d \in {<<>>, ExampleCom, ExampleUrl, Localhost, MuellerDe},
         c \in {<<>>, PraxisMitte, InfoCompany} }

GuessProbes ==
  { [op |-> "guessEmails", given |-> i, limit |-> l] :
      i \in GuessInputs, l \in {Nothing} \cup { Some(n) : n \in 1..MaxGuessLimit } }

InitGuess ==
  /\ ImportIdle /\ EnrichIdle
  /\ probe \in GuessProbes
  /\ returned = NoReturn

InvokeGuessEmails ==
  Invoke("guessEmails",
         [state |-> "returned", candidates |-> guessEmails(probe.given, probe.limit)])

SpecGuess == InitGuess /\ [][InvokeGuessEmails]_vars

(***************************************************************************)
(* Part 6.  E-mail scoring: isDisposableEmail, hasMx and the two routes    *)
(* that rank the candidates of guessEmails, POST /api/v1/email/guess and   *)
(* POST /api/v1/leads/guess-email.  Text is a sequence of characters.      *)
(***************************************************************************)
localDisposableDomains ==
  { <<"m", "a", "i", "l", "i", "n", "a", "t", "o", "r", ".", "c", "o", "m">>,
       <<"g", "u", "e", "r", "r", "i", "l", "l", "a", "m", "a", "i", "l", ".", "c", "o", "m">>,
       <<"1", "0", "m", "i", "n", "u", "t", "e", "m", "a", "i", "l", ".", "c", "o", "m">>,
       <<"t", "e", "m", "p", "m", "a", "i", "l", ".", "c", "o", "m">>,
       <<"y", "o", "p", "m", "a", "i", "l", ".", "c", "o", "m">> }

\* isDisposableEmail; `kick` is what the fetch of the classification service does:
\* kind "ok" with the `disposable` field of its JSON (Nothing when absent), "non2xx",
\* "unparsable" (res.json rejects) or "reject" (transport error, or the abort after the
\* timeout).  `fetched` tells whether the service was called
isDisposableEmailThrows(email, kick) ==
  [disposable |-> kick.kind # "ok" \/ kick.disposable = Some(TRUE),
   provider |-> "kickbox-open", fetched |-> TRUE]

isDisposableEmail(email, kick) ==
  LET normalized == toLowerCase(TrimText(email))
      ats == { i \in 1..Len(normalized) : normalized[i] = "@" }
      first == CHOOSE i \in ats : \A j \in ats : i <= j
      later == { i \in ats : i > first }
      second == IF later = {} THEN Len(normalized) + 1
                ELSE CHOOSE i \in later : \A j \in later : i <= j
      domain == IF ats = {} THEN <<>> ELSE SubSeq(normalized, first + 1, second - 1)
  IN IF domain = <<>> THEN [disposable |-> FALSE, provider |-> "local", fetched |-> FALSE]
     ELSE IF domain \in localDisposableDomains
     THEN [disposable |-> TRUE, provider |-> "local", fetched |-> FALSE]
     ELSE [disposable |-> kick.kind = "ok" /\ kick.disposable = Some(TRUE),
           provider |-> "kickbox-open", fetched |-> TRUE]

\* hasMx: `dns` is what resolveMx does, "records", "empty" or "reject"
hasMx(dns) == dns = "records"

MxBonus == 5
MxPenalty == 20
DisposablePenalty == 50

FinalScoreFlat(score, mx, disposable) == score + (IF mx THEN MxBonus ELSE -MxPenalty)

\* c.score + (mx ? 5 : -20) + (disp.disposable ? -50 : 0)
FinalScore(score, mx, disposable) ==
  score + (IF mx THEN MxBonus ELSE -MxPenalty) + (IF disposable THEN -DisposablePenalty ELSE 0)

\* the candidates with mx, disposable and finalScore, as Promise.all leaves them;
\* kicks[i] is what the service does for candidates[i]
Scored(candidates, mx, kicks) ==
  [i \in 1..Len(candidates) |->
     LET c == candidates[i]
         disp == isDisposableEmail(c.email, kicks[i])
     IN [email |-> c.email, pattern |-> c.pattern, score |-> c.score, domain |-> c.domain,
         mx |-> mx, disposable |-> disp.disposable, provider |-> disp.provider,
         fetched |-> disp.fetched, finalScore |-> FinalScore(c.score, mx, disp.disposable)]]

\* Array.prototype.sort((a, b) => b.finalScore - a.finalScore): stable
Ranked(cs) ==
  LET RECURSIVE Insert(_, _)
      Insert(sorted, c) ==
        IF sorted = <<>> THEN <<c>>
        ELSE IF Head(sorted).finalScore >= c.finalScore
             THEN <<Head(sorted)>> \o Insert(Tail(sorted), c)
        ELSE <<c>> \o sorted
      RECURSIVE Sort(_)
      Sort(xs) == IF xs = <<>> THEN <<>> ELSE Insert(Sort(SubSeq(xs, 1, Len(xs) - 1)), xs[Len(xs)])
  IN Sort(cs)

BestOverall(ranked) == ranked[1]

\* ranked.find((c) => !c.disposable) ?? ranked[0]
Best(ranked) ==
  LET clean == { i \in 1..Len(ranked) : ~ranked[i].disposable }
  IN IF clean = {} THEN ranked[1] ELSE ranked[CHOOSE i \in clean : \A j \in clean : i <= j]

GuessDomainMin == 3
GuessLimitMin == 1
GuessLimitMax == 50

\* POST /api/v1/email/guess; req.body is Nothing when the body does not parse, else
\* the fields of GuessSchema with limit and verify optional
emailGuess(req) ==
  IF ~req.auth THEN [state |-> "returned", status |-> 401, candidates |-> <<>>, scored |-> FALSE]
  ELSE IF \/ ~IsSome(req.body)
          \/ Len(Get(req.body).domain) < GuessDomainMin
          \/ /\ IsSome(Get(req.body).limit)
             /\ ~(Get(Get(req.body).limit) \in GuessLimitMin..GuessLimitMax)
  THEN [state |-> "returned", status |-> 400, candidates |-> <<>>, scored |-> FALSE]
  ELSE LET body == Get(req.body)
           candidates ==
             guessEmails([fullName |-> body.ownerName, firstName |-> body.firstName,
                          lastName |-> body.lastName, companyName |-> body.companyName,
                          domain |-> body.domain],
                         Some(IF IsSome(body.limit) THEN Get(body.limit) ELSE GuessLimitDefault))
           verify == IF IsSome(body.verify) THEN Get(body.verify) ELSE TRUE
           mx == IF candidates # <<>> THEN hasMx(req.dns) ELSE FALSE
       IN IF ~verify
          THEN [state |-> "returned", status |-> 200, candidates |-> candidates, scored |-> FALSE]
          ELSE [state |-> "returned", status |-> 200,
                candidates |-> Ranked(Scored(candidates, mx, req.kicks)), scored |-> TRUE]

\* POST /api/v1/leads/guess-email; req.lead is what findFirst returns.  The note that
\* is appended is kept as the pair of the address and the pattern it names
leadGuessEmail(req) ==
  LET Reply(status) ==
        [state |-> "returned", status |-> status, best |-> Nothing, candidates |-> <<>>,
         lead |-> req.lead]
      updateLead == IF IsSome(req.updateLead) THEN Get(req.updateLead) ELSE TRUE
  IN IF ~req.auth THEN Reply(401)
     ELSE IF ~Truthy(req.leadId) THEN Reply(400)
     ELSE IF ~IsSome(req.lead) THEN Reply(404)
     ELSE IF Get(req.lead).owner = <<>> THEN Reply(400)
     ELSE LET lead == Get(req.lead)
              candidates ==
                guessEmails([fullName |-> lead.owner, firstName |-> <<>>, lastName |-> <<>>,
                             companyName |-> lead.companyName, domain |-> lead.website],
                            Some(GuessLimitDefault))
              mx == hasMx(req.dns)
              ranked == Ranked(Scored(candidates, mx, req.kicks))
              best == Best(ranked)
          IN IF candidates = <<>> THEN Reply(400)
             ELSE [state |-> "returned", status |-> 200, best |-> Some(best),
                   candidates |-> ranked,
                   lead |-> IF updateLead
                            THEN Some([lead EXCEPT !.email = best.email,
                                                   !.guessed = Some(<<best.email, best.pattern>>)])
                            ELSE req.lead]

\* candidates whose service answer varies one by one; the rest share one answer
MaxVaried == 3

KickOutcomes ==
  { [kind |-> "ok", disposable |-> d] : d \in {Some(TRUE), Some(FALSE), Nothing} }
  \cup { [kind |-> k, disposable |-> Nothing] : k \in {"non2xx", "unparsable", "reject"} }

\* what the service does for each of up to 14 candidates: one answer each for the
\* first MaxVaried, one for the generic addresses (the tenth candidate onwards when a
\* full name is given) and one for those in between
KickPlans ==
  LET Says(d) == [kind |-> "ok", disposable |-> Some(d)]
      Fails == [kind |-> "reject", disposable |-> Nothing]
  IN { [i \in 1..14 |-> IF i <= MaxVaried THEN head[i] ELSE IF i >= 10 THEN low ELSE rest] :
         head \in [1..MaxVaried -> {Says(TRUE), Says(FALSE), Fails}],
         rest \in {Says(TRUE), Says(FALSE)}, low \in {Says(TRUE), Fails} }

ScoreProbes ==
  LET AnnaMitte == <<"A", "n", "n", "a", " ", "M", "i", "t", "t", "e">>
      Praxis == <<"P", "r", "a", "x", "i", "s", " ", "M", "i", "t", "t", "e">>
      ExampleCom == <<"e", "x", "a", "m", "p", "l", "e", ".", "c", "o", "m">>
      YopmailUrl == <<"h", "t", "t", "p", "s", ":", "/", "/", "w", "w", "w", ".", "Y", "o", "p", "m", "a", "i", "l", ".", "c", "o", "m", "/">>
      Localhost == <<"l", "o", "c", "a", "l", "h", "o", "s", "t">>
      Emails == { <<" ", "I", "n", "f", "o", "@", "M", "a", "i", "l", "i", "n", "a", "t", "o", "r", ".", "C", "O", "M", " ">>,
                  <<"a", "n", "n", "a", "@", "e", "x", "a", "m", "p", "l", "e", ".", "c", "o", "m">>,
                  <<"a", "n", "n", "a", "@", "m", "a", "i", "l", ".", "t", "e", "m", "p", "m", "a", "i", "l", ".", "c", "o", "m">>,
                  <<"a", "n", "n", "a", "@", "y", "o", "p", "m", "a", "i", "l", ".", "c", "o", "m", "@", "e", "x", "a", "m", "p", "l", "e", ".", "c", "o", "m">>,
                  <<"a", "n", "n", "a">>, <<"a", "n", "n", "a", "@">> }
      Dns == {"records", "empty", "reject"}
      Lead(owner, website) ==
        Some([owner |-> owner, website |-> website, companyName |-> Praxis, email |-> <<>>,
              guessed |-> Nothing])
      GuessBody(domain, limit, verify) ==
        Some([ownerName |-> AnnaMitte, firstName |-> <<>>, lastName |-> <<>>,
              companyName |-> <<>>, domain |-> domain, limit |-> limit, verify |-> verify])
  IN { [op |-> "isDisposableEmail", email |-> e, kick |-> k] : e \in Emails, k \in KickOutcomes }
     \cup { [op |-> "emailGuess", auth |-> TRUE, body |-> GuessBody(d, l, v), dns |-> m, kicks |-> ks] :
               d \in {ExampleCom, YopmailUrl}, l \in {Some(MaxVaried + 1)},
               v \in {Nothing, Some(FALSE)}, m \in Dns, ks \in KickPlans }
     \cup { [op |-> "emailGuess", auth |-> a, body |-> b, dns |-> "records", kicks |-> ks] :
               a \in BOOLEAN,
               b \in {Nothing, GuessBody(Localhost, Nothing, Nothing), GuessBody(<<"a", ".">>, Nothing, Nothing),
                      GuessBody(ExampleCom, Some(GuessLimitMax + 1), Nothing),
                      GuessBody(ExampleCom, Nothing, Nothing)},
               ks \in {[i \in 1..14 |-> [kind |-> "ok", disposable |-> Some(FALSE)]]} }
     \cup { [op |-> "leadGuessEmail", auth |-> TRUE, leadId |-> "lead-1", updateLead |-> u,
              lead |-> Lead(AnnaMitte, w), dns |-> m, kicks |-> ks] :
               u \in {Nothing, Some(FALSE)}, w \in {ExampleCom, YopmailUrl}, m \in Dns,
               ks \in KickPlans }
     \cup { [op |-> "leadGuessEmail", auth |-> a, leadId |-> id, updateLead |-> Nothing,
              lead |-> l, dns |-> "records",
              kicks |-> [i \in 1..14 |-> [kind |-> "ok", disposable |-> Some(FALSE)]]] :
               a \in BOOLEAN, id \in {"lead-1", ""},
               l \in {Nothing, Lead(<<>>, ExampleCom), Lead(AnnaMitte, <<>>),
                      Lead(AnnaMitte, Localhost)} }

InitScore ==
  /\ ImportIdle /\ EnrichIdle
  /\ probe \in ScoreProbes
  /\ returned = NoReturn

InvokeIsDisposable ==
  Invoke("isDisposableEmail",
         [state |-> "returned", result |-> isDisposableEmail(probe.email, probe.kick)])

InvokeEmailGuess == Invoke("emailGuess", emailGuess(probe))

InvokeLeadGuessEmail == Invoke("leadGuessEmail", leadGuessEmail(probe))

SpecScore ==
  InitScore /\ [][InvokeIsDisposable \/ InvokeEmailGuess \/ InvokeLeadGuessEmail]_vars

(***************************************************************************)
(* Part 7.  tileBbox in floating point.  The code computes the edges of    *)
(* the tiles with JavaScript numbers, every operation rounding its exact   *)
(* result to the nearest number of the format, ties to even.  Here the     *)
(* format has a significand of Precision bits instead of 53, and a number  *)
(* is held as the integer count of units of 2^-ScaleBits.                  *)
(***************************************************************************)
Precision == 6
ScaleBits == 12

\* largest grid
MaxRows == 13
MaxCols == 2

\* num / den rounded to the nearest number of the format, ties to even; counts below
\* 2^(Precision-1) units are whole numbers of units and exact
RoundToFormat(num, den) ==
  IF num < 2^(Precision - 1) * den THEN num \div den
  ELSE LET e == CHOOSE k \in 0..(ScaleBits + 4) :
                  2^(Precision - 1 + k) * den <= num /\ num < 2^(Precision + k) * den
           unit == 2^e * den
           m == num \div unit
           twiceRest == 2 * (num - m * unit)
       IN IF twiceRest > unit \/ (twiceRest = unit /\ m % 2 = 1) THEN (m + 1) * 2^e
          ELSE m * 2^e

\* tileBbox with its arithmetic rounded: b holds the bounds in units of 2^-ScaleBits
tileBboxRounded(b, rows, cols) ==
  LET latStep == RoundToFormat(RoundToFormat(b.north - b.south, 1), rows)
      lonStep == RoundToFormat(RoundToFormat(b.east - b.west, 1), cols)
      Edge(from, k, step) == RoundToFormat(from + RoundToFormat(k * step, 1), 1)
  IN [i \in 1..(rows * cols) |->
        LET r == (i - 1) \div cols
            c == (i - 1) % cols
        IN [south |-> Edge(b.south, r, latStep), north |-> Edge(b.south, r + 1, latStep),
            west |-> Edge(b.west, c, lonStep), east |-> Edge(b.west, c + 1, lonStep)]]

\* regions with whole-numbered bounds, which the format holds exactly
TileProbes ==
  { [op |-> "tileBbox",
     region |-> [south |-> s * 2^ScaleBits, north |-> n * 2^ScaleBits,
                 west |-> w * 2^ScaleBits, east |-> e * 2^ScaleBits],
     rows |-> rows, cols |-> cols] :
      s \in 0..1, n \in 2..3, w \in {0}, e \in {1, 3}, rows \in 1..MaxRows, cols \in 1..MaxCols }
  \cup { [op |-> "tileBbox",
          region |-> [south |-> 0, north |-> 2^ScaleBits, west |-> 0, east |-> 2^ScaleBits],
          rows |-> rows, cols |-> cols] : rows \in 1..MaxRows, cols \in 1..MaxCols }

InitTile ==
  /\ ImportIdle /\ EnrichIdle
  /\ probe \in TileProbes
  /\ returned = NoReturn

InvokeTileBbox ==
  Invoke("tileBbox",
         [state |-> "returned", tiles |-> tileBboxRounded(probe.region, probe.rows, probe.cols)])

SpecTile == InitTile /\ [][InvokeTileBbox]_vars

(***************************************************************************)
(* Part 8.  scrapeImpressum one fetch at a time (src/unnamed/part_002,     *)
(* lines 85-114).  The probe holds the website and, per candidate, what    *)
(* fetchHtml and the four extractors make of it; the invocation keeps its  *)
(* position in the loop over the candidates and the URLs fetched so far.   *)
(***************************************************************************)
\* most candidates of a site that answer with a page
MaxPages == 2

PageKinds ==
  LET Kind(email, phone, owner, address) ==
        [email |-> email, phone |-> phone, owner |-> owner, address |-> address]
  IN { Kind(None, None, None, None), Kind("info@mitte.example", None, None, None),
       Kind(None, "030 123456", None, None), Kind(None, None, "Dr. Anna Mitte", None),
       Kind(None, None, None, "Suedweg 5"),
       Kind("legal@mitte.example", None, "Dr. Anna Mitte", "Hauptstrasse 1, 10115 Berlin") }

\* per candidate, Nothing (fetchHtml returned null or an empty body) or the extraction
WebsOf(n) ==
  UNION { { [i \in 1..n |-> IF i \in at THEN Some(k[i]) ELSE Nothing] : k \in [at -> PageKinds] } :
          at \in { a \in SUBSET (1..n) : Cardinality(a) <= MaxPages } }

ScrapeProbes ==
  { [op |-> "scrapeImpressum", website |-> "not a url", pages |-> <<>>] }
  \cup { [op |-> "scrapeImpressum", website |-> site, pages |-> w] :
           site \in {"https://mitte.example"}, w \in WebsOf(2 * Len(IMPRESSUM_PATHS)) }
  \cup { [op |-> "scrapeImpressum", website |-> site, pages |-> w] :
           site \in {"www.sued.example"}, w \in WebsOf(Len(IMPRESSUM_PATHS)) }

InitScrape ==
  /\ ImportIdle /\ EnrichIdle
  /\ probe \in ScrapeProbes
  /\ returned = NoReturn

\* new URL(...) and the list of candidates, before the loop
ScrapeStart ==
  /\ returned = NoReturn
  /\ returned' = IF ~ParseUrl(probe.website).valid
                 THEN [state |-> "threw", i |-> 0, fetched |-> <<>>, imp |-> EmptyImpressum]
                 ELSE [state |-> "running", i |-> 1, fetched |-> <<>>, imp |-> EmptyImpressum]
  /\ UNCHANGED <<importVars, probe, enrichVars>>

\* one iteration of the loop: fetchHtml(url), the extraction, and the return on a match
ScrapeFetch ==
  /\ returned.state = "running"
  /\ returned.i <= Len(Candidates(ParseUrl(probe.website)))
  /\ LET url == Candidates(ParseUrl(probe.website))[returned.i]
         page == probe.pages[returned.i]
         fetched == Append(returned.fetched, url)
     IN returned' =
          IF IsSome(page) /\ (Truthy(Get(page).email) \/ Truthy(Get(page).phone)
                               \/ Truthy(Get(page).owner) \/ Truthy(Get(page).address))
          THEN [state |-> "returned", i |-> returned.i, fetched |-> fetched,
                imp |-> [owner |-> Get(page).owner, email |-> Get(page).email,
                         phone |-> Get(page).phone, address |-> Get(page).address,
                         sourceUrl |-> url]]
          ELSE [returned EXCEPT !.i = @ + 1, !.fetched = fetched]
  /\ UNCHANGED <<importVars, probe, enrichVars>>

\* the loop ran out: return {}
ScrapeEnd ==
  /\ returned.state = "running"
  /\ returned.i > Len(Candidates(ParseUrl(probe.website)))
  /\ returned' = [returned EXCEPT !.state = "returned"]
  /\ UNCHANGED <<importVars, probe, enrichVars>>

SpecScrape == InitScrape /\ [][ScrapeStart \/ ScrapeFetch \/ ScrapeEnd]_vars

(***************************************************************************)
(* Part 9.  POST /api/leadfinder/scrape                                    *)
(* (src/src/app/api/leadfinder/scrape/route.ts, lines 27-181) with         *)
(* canScrape (src/src/features/leadfinder/lib/tier-config.ts).  Several    *)
(* requests are served at once; each await of the handler is a step.  The  *)
(* probe holds the requests and the ScrapedLead records of today at the    *)
(* start; the invocation state holds the table and each handler's frame.   *)
(***************************************************************************)
Clients == {"c1", "c2", "c3"}

\* records a tier may lack to its daily limit when the requests arrive
Headroom == 1

\* TIER_CONFIGS[tier].limits.dailyScrapeLimit
dailyScrapeLimit(tier) ==
  CASE tier = "SOLO" -> 25
    [] tier = "STARTER" -> 100
    [] tier = "TEAM" -> 250
    [] tier = "PROFESSIONAL" -> 600
    [] tier = "ENTERPRISE" -> 1500

canScrape(tier, scrapedToday) == scrapedToday < dailyScrapeLimit(tier)

\* the tiers the requests name
ProbedTiers == {"SOLO", "STARTER"}

LeadfinderProbes ==
  { [op |-> "leadfinder/scrape", requests |-> q, stored |-> st] :
      q \in [Clients -> [tier : ProbedTiers, scrapes : BOOLEAN]],
      st \in { f \in [ProbedTiers -> 0..dailyScrapeLimit("STARTER")] :
                 \A t \in ProbedTiers : /\ f[t] <= dailyScrapeLimit(t)
                                         /\ f[t] >= dailyScrapeLimit(t) - Headroom } }

InitLeadfinder ==
  /\ ImportIdle /\ EnrichIdle
  /\ probe \in LeadfinderProbes
  /\ returned = [state |-> "serving", table |-> probe.stored,
                 at |-> [c \in Clients |-> "count"],
                 scrapedToday |-> [c \in Clients |-> 0],
                 status |-> [c \in Clients |-> 0]]

\* prisma.scrapedLead.count and the canScrape check
CountScrapedToday(c) ==
  /\ returned.state = "serving" /\ returned.at[c] = "count"
  /\ LET tier == probe.requests[c].tier
         n == returned.table[tier]
     IN returned' = IF ~canScrape(tier, n)
                    THEN [returned EXCEPT !.scrapedToday[c] = n, !.at[c] = "done", !.status[c] = 429]
                    ELSE [returned EXCEPT !.scrapedToday[c] = n, !.at[c] = "scrape"]
  /\ UNCHANGED <<importVars, probe, enrichVars>>

\* scraper.scrape and the check of its result
RunScraper(c) ==
  /\ returned.state = "serving" /\ returned.at[c] = "scrape"
  /\ returned' = IF probe.requests[c].scrapes
                 THEN [returned EXCEPT !.at[c] = "create"]
                 ELSE [returned EXCEPT !.at[c] = "done", !.status[c] = 400]
  /\ UNCHANGED <<importVars, probe, enrichVars>>

\* prisma.scrapedLead.create, and the response; when it throws, the catch answers 500
CreateScrapedLead(c) ==
  /\ returned.state = "serving" /\ returned.at[c] = "create"
  /\ \/ returned' = [returned EXCEPT !.table[probe.requests[c].tier] = @ + 1,
                                      !.at[c] = "done", !.status[c] = 200]
     \/ returned' = [returned EXCEPT !.at[c] = "done", !.status[c] = 500]
  /\ UNCHANGED <<importVars, probe, enrichVars>>

SpecLeadfinder ==
  InitLeadfinder
  /\ [][\E c \in Clients : CountScrapedToday(c) \/ RunScraper(c) \/ CreateScrapedLead(c)]_vars

(***************************************************************************)
(* Properties of the bulk import.                                          *)
(***************************************************************************)
\* the slot is serving an accepted request (its run has begun)
InRun(r) == pc[r] \in {"loop", "request", "places"} \/ (pc[r] = "done" /\ response[r].status = 201)

Last(seq) == seq[Len(seq)]

\* the identity of a place: osm:<sourceRef> when the sourceRef is present, else the
\* composite of name, website and address (an absent website or address counts as empty)
IdentityKey(p) ==
  IF p.sourceRef # None THEN "osm:" \o p.sourceRef
  ELSE "name:" \o p.name
       \o "|web:" \o (IF p.website = None THEN "" ELSE p.website)
       \o "|addr:" \o (IF p.address = None THEN "" ELSE p.address)

\* C1: within a run no two places handed to persistence have the same IdentityKey, and
\* every place the loop has visited has its key among the handed ones, handed at its
\* first occurrence (an earlier call, or an earlier or the same position of this call)
C1_OncePerIdentityKey ==
  \A r \in Runs :
    /\ \A i, j \in 1..Len(handed[r]) :
         i < j => IdentityKey(handed[r][i].place) # IdentityKey(handed[r][j].place)
    /\ (InRun(r) /\ Len(log[r]) > 0) =>
         \A v \in 1..Len(Last(log[r]).visited) :
           \E i \in 1..Len(handed[r]) :
             /\ IdentityKey(handed[r][i].place) = IdentityKey(resp[r].places[Last(log[r]).visited[v]])
             /\ \/ handed[r][i].call < Len(log[r])
                \/ handed[r][i].call = Len(log[r]) /\ handed[r][i].index <= Last(log[r]).visited[v]

\* a second call returned places and every one of them was rejected as seen
C1_Witness ==
  \E r \in Runs :
    /\ InRun(r) /\ Len(log[r]) >= 2 /\ Len(handed[r]) >= 2
    /\ Len(resp[r].places) > 0
    /\ Len(Last(log[r]).visited) = Len(resp[r].places)
    /\ \A i \in 1..Len(handed[r]) : handed[r][i].call < Len(log[r])

\* leads created by the calls before call k
CreatedBefore(r, k) ==
  Cardinality({ i \in 1..Len(handed[r]) : handed[r][i].call < k /\ handed[r][i].outcome = "created" })

\* C2: callsMade never exceeds maxCalls, and every call was issued with fewer than
\* maxCalls calls made and fewer than target leads created
C2_CallBudget ==
  \A r \in Runs :
    InRun(r) =>
      /\ calls[r] <= input[r].maxCalls
      /\ \A k \in 1..calls[r] : k - 1 < input[r].maxCalls /\ CreatedBefore(r, k) < input[r].target
      /\ pc[r] = "request" => createdIds[r] < input[r].target

\* a run that stopped because its call budget was used up
C2_Witness ==
  \E r \in Runs :
    /\ pc[r] = "done" /\ response[r].status = 201
    /\ response[r].callsMade = input[r].maxCalls
    /\ response[r].created < input[r].target

\* C3: created never exceeds target, and once it has reached target the place that
\* reached it is the last one visited, admitted or persisted, and its call the last call
C3_ResultBudget ==
  \A r \in Runs :
    InRun(r) =>
      /\ createdIds[r] <= input[r].target
      /\ createdIds[r] >= input[r].target =>
           /\ Len(handed[r]) > 0
           /\ Last(handed[r]).outcome = "created"
           /\ calls[r] = Last(handed[r]).call
           /\ Len(log[r]) = calls[r]
           /\ Last(Last(log[r]).visited) = Last(handed[r]).index

\* a run that met its target with places of the batch left over
C3_Witness ==
  \E r \in Runs :
    /\ pc[r] = "done" /\ response[r].status = 201
    /\ response[r].created = input[r].target
    /\ Last(handed[r]).index < Len(resp[r].places)

\* v is num / den rounded to the nearest integer, halves up
IsRounded(v, num, den) == 2 * den * v - den <= 2 * num /\ 2 * num < 2 * den * v + den

\* the request of run r completes in this step
Responds(r) == pc[r] = "request" /\ pc'[r] \in {"loop", "places"}

\* C4: the throttle rule.  A rate-limited or empty call resets the streak and sets
\* delayMs to min(5000, round(delayMs * 1.7 + 100)); any other call adds one to the
\* streak and sets delayMs to max(75, round(delayMs * 0.85)) when the new streak is
\* at least 3, leaving it unchanged otherwise
C4_ThrottleRule ==
  [][\A r \in Runs :
       Responds(r) =>
         LET d == delayMs[r]
             d2 == delayMs'[r]
         IN IF resp'[r].rateLimited \/ Len(resp'[r].places) = 0
            THEN /\ successStreak'[r] = 0
                 /\ IF d2 < 5000 THEN IsRounded(d2, 17 * d + 1000, 10)
                    ELSE d2 = 5000 /\ 2 * (17 * d + 1000) >= 2 * 10 * 5000 - 10
            ELSE /\ successStreak'[r] = successStreak[r] + 1
                 /\ successStreak'[r] < 3 => d2 = d
                 /\ successStreak'[r] >= 3 =>
                      IF d2 > 75 THEN IsRounded(d2, 85 * d, 100)
                      ELSE d2 = 75 /\ 2 * (85 * d) < 2 * 100 * 75 + 100]_vars

\* a failure followed by three successes: 150 -> 355 -> 355 -> 355 -> 302
C4_Witness ==
  \E r \in Runs : Len(log[r]) = 4 /\ successStreak[r] = 3 /\ delayMs[r] = 302

\* delayMs after call k of run r (before the first call: the start value)
DelayAfter(r, k) == IF k = 0 THEN 150 ELSE log[r][k].delayMs

AllFailing(r) == \A k \in 1..Len(log[r]) : log[r][k].failing

\* C5: in a run whose calls all failed, delayMs never decreased from one call to the
\* next, increased strictly while below 5000, and never exceeded 5000
C5_BackoffMonotone ==
  \A r \in Runs :
    AllFailing(r) =>
      \A k \in 1..Len(log[r]) :
        /\ DelayAfter(r, k) >= DelayAfter(r, k - 1)
        /\ DelayAfter(r, k - 1) < 5000 => DelayAfter(r, k) > DelayAfter(r, k - 1)
        /\ DelayAfter(r, k) <= 5000

\* an all-failing run that reached the cap and made another call there
C5_Witness ==
  \E r \in Runs :
    /\ Len(log[r]) >= 7 /\ AllFailing(r)
    /\ DelayAfter(r, Len(log[r]) - 1) = 5000 /\ delayMs[r] = 5000

\* call k failed and calls k+1, k+2, k+3 succeeded
FailThenThree(r, k) ==
  /\ k >= 1 /\ k + 3 <= Len(log[r])
  /\ log[r][k].failing
  /\ \A j \in (k + 1)..(k + 3) : ~log[r][j].failing

\* C6: after a failing call followed by three successful calls, delayMs is strictly
\* lower than right after the failing call, and at least 75
C6_RecoverAfterThree ==
  \A r \in Runs :
    \A k \in 1..Len(log[r]) :
      FailThenThree(r, k) =>
        /\ DelayAfter(r, k + 3) < DelayAfter(r, k)
        /\ DelayAfter(r, k + 3) >= 75

\* such a recovery after a streak of failures
C6_Witness ==
  \E r \in Runs : \E k \in 2..Len(log[r]) : FailThenThree(r, k) /\ log[r][k - 1].failing

\* C7: the delay slept before the request of call k >= 2 is the delayMs that the
\* outcome of call k - 1 left, for the completed calls and for the call in progress
C7_PacesNextCall ==
  \A r \in Runs :
    /\ \A k \in 2..Len(log[r]) : log[r][k].slept = DelayAfter(r, k - 1)
    /\ (pc[r] = "request" /\ calls[r] >= 2) =>
         /\ Len(log[r]) = calls[r] - 1
         /\ sleptMs[r] = DelayAfter(r, calls[r] - 1)

\* a call whose own outcome changed delayMs, after it slept the delay of the call before
C7_Witness ==
  \E r \in Runs : \E k \in 2..Len(log[r]) :
    /\ log[r][k].slept # 150
    /\ log[r][k].slept # log[r][k].delayMs
    /\ log[r][k].slept = log[r][k - 1].delayMs

\* run r takes a step
Acts(r) == pc'[r] # pc[r] \/ placeIdx'[r] # placeIdx[r]

\* C8: a run starts with delayMs = 150, successStreak = 0 and an empty seen-set, and
\* no step of a run changes another run's delayMs, successStreak or seen-set
C8_RunsIndependent ==
  [][\A r \in Runs :
       Acts(r) =>
         /\ (pc[r] \in {"idle", "done"} /\ pc'[r] = "loop") =>
              delayMs'[r] = 150 /\ successStreak'[r] = 0 /\ seenRef'[r] = {}
         /\ \A q \in Runs \ {r} :
              /\ delayMs'[q] = delayMs[q]
              /\ successStreak'[q] = successStreak[q]
              /\ seenRef'[q] = seenRef[q]]_vars

\* a run that has just started cold while the other is backed off with places seen
C8_Witness ==
  \E r \in Runs : \E q \in Runs \ {r} :
    /\ pc[r] = "loop" /\ calls[r] = 0
    /\ delayMs[r] = 150 /\ successStreak[r] = 0 /\ seenRef[r] = {}
    /\ pc[q] \in {"loop", "request", "places"} /\ calls[q] >= 2
    /\ delayMs[q] > 150 /\ seenRef[q] # {}

\* String.prototype.toLowerCase on the names of the model's places
LowerCased(name) ==
  CASE name = "Zahnarzt Nord" -> "zahnarzt nord"
    [] name = "Praxis Mitte" -> "praxis mitte"
    [] OTHER -> name

\* two places without sourceRef, same website and address, names equal up to letter case
CaseVariants(p, q) ==
  /\ p.sourceRef = None /\ q.sourceRef = None
  /\ p.website = q.website /\ p.address = q.address
  /\ LowerCased(p.name) = LowerCased(q.name)

\* C9: of two places without sourceRef that have the same website and address and
\* names that differ only in letter case, the second is rejected: no two such places
\* are handed to persistence in one run
C9_CaseInsensitiveKey ==
  \A r \in Runs :
    \A i, j \in 1..Len(handed[r]) :
      i < j => ~CaseVariants(handed[r][i].place, handed[r][j].place)

\* the positions 1..n in order
Positions(n) == [i \in 1..n |-> i]

\* C10: the k-th call of a run asks for tile (k-1) mod 25 (row-major) of filter group
\* floor((k-1)/25), the places of a call are visited in the order returned, and a call
\* is issued only after the places of the call before were visited
C10_FixedOrder ==
  \A r \in Runs :
    InRun(r) =>
      /\ \A k \in 1..Len(log[r]) :
           /\ log[r][k].bbox = Some(tileBbox(BERLIN_BBOX, 5, 5)[((k - 1) % 25) + 1])
           /\ log[r][k].tagFilters = tagFiltersFor(input[r].kind)[((k - 1) \div 25) + 1]
           /\ log[r][k].visited = Positions(Len(log[r][k].visited))
      /\ pc[r] = "request" =>
           /\ params[r].bbox = Some(tileBbox(BERLIN_BBOX, 5, 5)[((calls[r] - 1) % 25) + 1])
           /\ params[r].tagFilters = tagFiltersFor(input[r].kind)[((calls[r] - 1) \div 25) + 1]
           /\ calls[r] >= 2 => Len(Last(log[r]).visited) = Len(resp[r].places)

\* the 26th call is in progress: the first tile of the second filter group
C10_Witness ==
  \E r \in Runs :
    /\ pc[r] = "request" /\ calls[r] = 26
    /\ \E k \in 1..Len(log[r]) : Len(log[r][k].visited) >= 2

(***************************************************************************)
(* Properties of the Overpass adapter inside the bulk import.              *)
(***************************************************************************)
\* the answers that are transient provider errors: the fetch rejecting (timeout by
\* abort, transport failure), a status outside 200..299, a body that is not JSON
TransientFailures ==
  { n \in EmptyNets : n.kind = "reject" \/ n.status < 200 \/ n.status > 299 \/ n.json = Nothing }

\* the combination after (f, t) in the order filters outer, tiles inner
NextCombination(f, t) == IF t < 25 THEN <<f, t + 1>> ELSE <<f + 1, 1>>

\* C12: a call that meets a timeout, a non-2xx response or an unparsable payload returns
\* an empty place list and does not throw; the step in which such a call returns resets
\* the streak, backs delayMs off, persists nothing and leaves the run at the head of the
\* loop on the next tile/filter combination, and the run is not aborted
C12_TransientAbsorbed ==
  [][\A r \in Runs :
       pc[r] = "request" =>
         \A n \in TransientFailures :
           LET res == searchOsmByBbox(n, params[r].cityFallback)
           IN /\ res.places = <<>> /\ ~res.threw
              /\ (Responds(r) /\ resp'[r] = res) =>
                   /\ pc'[r] = "loop"
                   /\ response'[r] = response[r]
                   /\ successStreak'[r] = 0
                   /\ delayMs'[r] = Min(5000, RoundDiv(17 * delayMs[r] + 1000, 10))
                   /\ <<filterIdx'[r], tileIdx'[r]>> = NextCombination(filterIdx[r], tileIdx[r])
                   /\ createdIds'[r] = createdIds[r] /\ handed'[r] = handed[r]
                   /\ calls'[r] = calls[r]]_vars

\* a call met a rate-limit error response, and the run has gone on to issue the call
\* for the next combination with a backed-off delay
C12_Witness ==
  \E r \in Runs :
    /\ pc[r] = "request" /\ Len(log[r]) >= 2 /\ calls[r] = Len(log[r]) + 1
    /\ resp[r].rateLimited /\ resp[r].places = <<>>
    /\ tileIdx[r] = calls[r] /\ sleptMs[r] > 150

(***************************************************************************)
(* Properties of the adapters.                                             *)
(***************************************************************************)
\* the provider answered the first request of the invocation with this net
Answered == probe.nets[1]

\* the body of an error response contains "rate", in any letter case
BodySaysRate(net) ==
  net.kind = "http" /\ ~(net.status \in 200..299)
  /\ \E i \in 1..(Len(net.text) - 3) :
       /\ net.text[i] \in {"r", "R"} /\ net.text[i + 1] \in {"a", "A"}
       /\ net.text[i + 2] \in {"t", "T"} /\ net.text[i + 3] \in {"e", "E"}

\* C13: searchOsmByBbox returns rateLimited = true exactly when the provider answered
\* with status 429 or with an error body that contains "rate" in any letter case; after
\* a rejected fetch it returns no place and rateLimited = false; and it never returns
\* rateLimited = true together with places
C13_RateLimitedExactly ==
  (probe.op = "searchOsmByBbox" /\ returned.state = "returned") =>
    /\ returned.rateLimited <=>
         (Answered.kind = "http" /\ Answered.status = 429) \/ BodySaysRate(Answered)
    /\ Answered.kind = "reject" => returned.places = <<>> /\ ~returned.rateLimited
    /\ returned.rateLimited => returned.places = <<>>

\* C14: an adapter operation whose provider answers with a status outside 200..299
\* returns an empty result and does not throw
C14_Non2xxIsEmpty ==
  (returned.state # "none" /\ probe.hasKey
   /\ Answered.kind = "http" /\ ~(Answered.status \in 200..299)) =>
    returned.state = "returned" /\ returned.places = <<>>

(***************************************************************************)
(* Properties of mapWithConcurrency and the enrichment fan-out.            *)
(***************************************************************************)
\* mapWithConcurrency has been called
PoolStarted == epc = "pool" \/ enriched # <<>>

\* mapWithConcurrency has returned
PoolReturned == epc \in {"persist", "done"} /\ enriched # <<>>

\* C15: every index is claimed by exactly one worker.  While the pool runs, fn has been
\* invoked once for each index below the counter and for no other, no two workers hold
\* the same index, and no slot has been written twice; when it has returned, fn was
\* invoked exactly once per item and every slot was written exactly once
C15_EachIndexOnce ==
  PoolStarted =>
    /\ \A i \in 1..Len(items) :
         /\ fnCount[i] = (IF i <= idx THEN 1 ELSE 0)
         /\ writeCount[i] <= 1
         /\ writeCount[i] = 1 <=> IsSome(slots[i])
    /\ \A v, w \in 1..Len(workers) :
         (v # w /\ workers[v].state = "awaiting" /\ workers[w].state = "awaiting") =>
           workers[v].current # workers[w].current
    /\ PoolReturned =>
         \A i \in 1..Len(items) : fnCount[i] = 1 /\ writeCount[i] = 1

\* a pool over more items than workers has returned, its calls settled out of order
C15_Witness ==
  /\ PoolReturned /\ Len(items) > 4
  /\ \E k \in 1..(Len(completed) - 1) : completed[k] > completed[k + 1]

\* the enrichment fetches in flight: the workers awaiting fn for a place with a website
InFlight ==
  { w \in 1..Len(workers) :
      workers[w].state = "awaiting" /\ items[workers[w].current + 1].website \notin {None, ""} }

\* C16: at no point are more than 4 enrichment fetches in flight
C16_AtMostFourInFlight == Cardinality(InFlight) <= 4

\* four fetches are in flight while more places wait to be enriched
C16_Witness ==
  /\ epc = "pool" /\ Cardinality(InFlight) = 4
  /\ idx < Len(items) /\ Len(completed) >= 1

\* C17: mapWithConcurrency returns at every position i the result for items[i], whatever
\* the order in which the calls settled
C17_OrderStable ==
  PoolReturned =>
    /\ Len(enriched) = Len(items)
    /\ \A i \in 1..Len(items) : enriched[i] = Some(fn(items[i]).value)

\* the pool returned after the call for the last item settled before that for the first
C17_Witness ==
  /\ PoolReturned /\ Len(items) >= 5
  /\ \E j, k \in 1..Len(completed) :
       j < k /\ completed[j] = Len(items) /\ completed[k] = 1

\* the contact scrape of place p fails: new URL throws on its website
ScrapeFails(p) == Truthy(p.website) /\ ~ParseUrl(p.website).valid

\* the lead of place p holds exactly the fields the provider gave
KeepsOwnFields(lead, p) ==
  /\ lead.companyName = p.name /\ lead.website = p.website /\ lead.sourceRef = p.sourceRef
  /\ lead.phone = p.phone /\ lead.address = p.address
  /\ lead.email = None /\ lead.owner = None /\ lead.impressum = None

\* the lead of place p holds what the scrape of its website found
IsEnriched(lead, p) ==
  LET imp == ScrapeFrom(Candidates(ParseUrl(p.website)), 1)
  IN /\ lead.email = imp.email /\ lead.owner = imp.owner /\ lead.impressum = imp.sourceUrl
     /\ lead.phone = (IF imp.phone # None THEN imp.phone ELSE p.phone)
     /\ lead.address = (IF imp.address # None THEN imp.address ELSE p.address)

\* C18: a failing contact scrape never surfaces as the error of the batch; the place it
\* failed for comes out of the fan-out with an empty scrape and its lead keeps exactly
\* the provider's fields, every other place with a website is enriched, and a batch
\* whose persistence does not fail ends with 201 and every place in the database
C18_ScrapeFailureSwallowed ==
  /\ reply.error # "Invalid URL"
  /\ PoolReturned =>
       \A i \in 1..Len(items) :
         /\ IsSome(enriched[i]) /\ Get(enriched[i]).place = items[i]
         /\ ScrapeFails(items[i]) =>
              /\ Get(enriched[i]).imp = Some(EmptyImpressum)
              /\ KeepsOwnFields(LeadOf(Get(enriched[i])), items[i])
         /\ (Truthy(items[i].website) /\ ~ScrapeFails(items[i])) =>
              IsEnriched(LeadOf(Get(enriched[i])), items[i])
  /\ \A k \in 1..Len(leads) :
       \E i \in 1..Len(items) :
         /\ leads[k].sourceRef = items[i].sourceRef
         /\ ScrapeFails(items[i]) => KeepsOwnFields(leads[k], items[i])
  /\ (epc = "done" /\ items # <<>> /\ job.faults = 0) =>
       /\ reply.status = 201
       /\ \A i \in 1..Len(items) : items[i].sourceRef \in db

\* a batch with a failing scrape has completed: the lead of the failing place keeps its
\* fields and another lead carries a scraped e-mail address
C18_Witness ==
  /\ epc = "done" /\ reply.status = 201
  /\ \E i \in 1..Len(items) : ScrapeFails(items[i])
  /\ \E j, k \in 1..Len(leads) :
       /\ leads[j].website = "http://" /\ leads[j].phone = "030 333333"
       /\ leads[k].email = "info@mitte.example"

(***************************************************************************)
(* Properties of merging an enrichment result.                             *)
(***************************************************************************)
MergedFields == {"email", "phone", "address", "owner"}

\* value `merged` is the scraped value when the scrape produced one and the previous
\* value otherwise, and is not empty when the previous value was populated
MergeKeeps(merged, scraped, previous) ==
  /\ merged = (IF Truthy(scraped) THEN scraped ELSE previous)
  /\ Truthy(previous) => Truthy(merged)

\* the fields of a provider place before enrichment: it has no email and no owner
PlaceField(p, f) == IF f \in {"phone", "address"} THEN p[f] ELSE None

\* C19: for each of email, phone, address and owner, the lead the enrichment route
\* writes and every lead the discover import creates holds the scraped value when the
\* scrape produced one and the previous value otherwise; a populated field is never
\* replaced with an empty one
C19_MergeNeverEmpties ==
  /\ (probe.op = "enrichLead" /\ returned.state = "returned" /\ returned.status = 200) =>
       LET before == Get(probe.lead)
           data == ScrapeFrom(Candidates(ParseUrl(before.website)), 1)
       IN \A f \in MergedFields : MergeKeeps(Get(returned.lead)[f], data[f], before[f])
  /\ PoolReturned =>
       \A i \in 1..Len(items) :
         LET e == Get(enriched[i])
         IN \A f \in MergedFields :
              MergeKeeps(LeadOf(e)[f], ImpField(e.imp, f), PlaceField(items[i], f))
  /\ \A k \in 1..Len(leads) :
       \E i \in 1..Len(items) :
         /\ leads[k].sourceRef = items[i].sourceRef
         /\ leads[k] = LeadOf(Get(enriched[i]))

\* a stored lead with every field populated was enriched by a scrape that found an
\* owner only: the owner is replaced, the other three fields are kept
C19_Witness ==
  /\ probe.op = "enrichLead" /\ returned.state = "returned" /\ returned.status = 200
  /\ Get(probe.lead).email = "alt@praxis.example" /\ Get(probe.lead).owner = "Alt Inhaber"
  /\ Get(returned.lead).owner = "Bernd Nord"
  /\ Get(returned.lead).email = "alt@praxis.example"
  /\ Get(returned.lead).phone = "030 999999"
  /\ Get(returned.lead).address = "Alte Str. 9"

(***************************************************************************)
(* Properties of guessEmails.                                              *)
(***************************************************************************)
\* every candidate guessEmails can make for the input: the loop run without a limit
Generable(given) ==
  LET domain == normalizeDomain(given.domain)
      parts == nameParts(given)
      companyToken == IF given.companyName # <<>> THEN toLocalAtom(given.companyName) ELSE <<>>
      patterns == Patterns(toLocalAtom(parts.first), toLocalAtom(parts.last), companyToken)
  IN IF given.domain = <<>> \/ ~IsSome(domain) THEN <<>>
     ELSE GuessLoop(patterns, 1, Get(domain), {}, <<>>, Len(patterns) + 1)

\* C20: guessEmails returns the best of its candidates: the result is ordered by
\* descending score, holds min(limit, number of generable candidates) entries, and no
\* generable candidate left out has a higher score than a candidate in the result
C20_TruncationKeepsBest ==
  (probe.op = "guessEmails" /\ returned.state = "returned") =>
    LET all == Generable(probe.given)
        got == returned.candidates
        limit == IF IsSome(probe.limit) THEN Get(probe.limit) ELSE GuessLimitDefault
    IN /\ Len(got) = Min(limit, Len(all))
       /\ \A i \in 1..(Len(got) - 1) : got[i].score >= got[i + 1].score
       /\ \A j \in 1..Len(all) :
            (\A i \in 1..Len(got) : got[i].email # all[j].email) =>
              \A i \in 1..Len(got) : all[j].score <= got[i].score

\* C21: for every input and every limit of at least 1 the result of guessEmails has at
\* most `limit` candidates, no two of them with the same address, in non-increasing
\* order of score; it is empty when no domain with a dot can be normalised from the input
C21_GuessShape ==
  (probe.op = "guessEmails" /\ returned.state = "returned") =>
    LET got == returned.candidates
        limit == IF IsSome(probe.limit) THEN Get(probe.limit) ELSE GuessLimitDefault
    IN /\ Len(got) <= limit
       /\ \A i, j \in 1..Len(got) : i # j => got[i].email # got[j].email
       /\ \A i \in 1..(Len(got) - 1) : got[i].score >= got[i + 1].score
       /\ ("." \notin Chars(probe.given.domain) \/ ~IsSome(normalizeDomain(probe.given.domain)))
            => got = <<>>

\* a call cut by its limit, for a name whose patterns repeat an address: "A" and
\* "Mitte" make a.mitte twice, and the later patterns score above the earlier
C21_Witness ==
  /\ probe.op = "guessEmails" /\ returned.state = "returned"
  /\ probe.limit = Some(MaxGuessLimit)
  /\ Len(returned.candidates) = MaxGuessLimit
  /\ Len(Generable(probe.given)) > MaxGuessLimit
  /\ returned.candidates[1].localPart = <<"a", ".", "m", "i", "t", "t", "e">>
  /\ \E i \in 1..Len(returned.candidates) : returned.candidates[i].pattern = "firstl"

(***************************************************************************)
(* Properties of the e-mail scoring.                                       *)
(***************************************************************************)
\* one of the two routes has answered with scored candidates
ScoredReply ==
  /\ probe.op \in {"emailGuess", "leadGuessEmail"}
  /\ returned.state = "returned" /\ returned.status = 200
  /\ probe.op = "emailGuess" => returned.scored

\* the candidates guessEmails made for the request of the probe
PriorCandidates ==
  IF probe.op = "emailGuess"
  THEN LET body == Get(probe.body)
       IN guessEmails([fullName |-> body.ownerName, firstName |-> body.firstName,
                       lastName |-> body.lastName, companyName |-> body.companyName,
                       domain |-> body.domain],
                      Some(IF IsSome(body.limit) THEN Get(body.limit) ELSE GuessLimitDefault))
  ELSE guessEmails([fullName |-> Get(probe.lead).owner, firstName |-> <<>>, lastName |-> <<>>,
                    companyName |-> Get(probe.lead).companyName,
                    domain |-> Get(probe.lead).website], Some(GuessLimitDefault))

\* C22: every scored candidate has finalScore = priorScore + (5 with MX, else -20) +
\* (-50 when disposable, else 0), the candidates are those of guessEmails with their
\* prior scores, and they are returned in non-increasing order of finalScore; scored with
\* MX a candidate gets more than another scored without MX whose prior score is less
\* than 25 above, both being disposable or both not
C22_FinalScoreAndOrder ==
  ScoredReply =>
    LET got == returned.candidates
        prior == PriorCandidates
    IN /\ Len(got) = Len(prior)
       /\ \A j \in 1..Len(prior) :
            \E i \in 1..Len(got) : got[i].email = prior[j].email /\ got[i].score = prior[j].score
       /\ \A i \in 1..Len(got) :
            /\ got[i].mx = (probe.dns = "records")
            /\ got[i].finalScore =
                 got[i].score + (IF got[i].mx THEN 5 ELSE -20)
                              + (IF got[i].disposable THEN -50 ELSE 0)
       /\ \A i \in 1..(Len(got) - 1) : got[i].finalScore >= got[i + 1].finalScore
       /\ \A i, j \in 1..Len(got) :
            got[j].score - got[i].score < 25 =>
              \A d \in BOOLEAN :
                FinalScore(got[i].score, TRUE, d) > FinalScore(got[j].score, FALSE, d)

\* with MX present the candidate of the highest prior score is disposable and comes
\* after a candidate of lower prior score
C22_Witness ==
  /\ ScoredReply /\ probe.dns = "records"
  /\ Len(returned.candidates) > MaxVaried
  /\ \E i, j \in 1..Len(returned.candidates) :
       /\ i < j
       /\ returned.candidates[j].score = 100 /\ returned.candidates[j].disposable
       /\ ~returned.candidates[i].disposable

\* the ranked candidate of the highest finalScore among those in `among`
TopOf(ranked, among) ==
  CHOOSE i \in among : \A j \in among : ranked[i].finalScore >= ranked[j].finalScore

\* C23: the e-mail written back to the lead is that of the candidate with the highest
\* finalScore among the non-disposable ones when there is one, and of the candidate
\* with the highest finalScore overall only when every candidate is disposable
C23_BestIsTopNonDisposable ==
  (probe.op = "leadGuessEmail" /\ returned.state = "returned" /\ returned.status = 200) =>
    LET ranked == returned.candidates
        all == 1..Len(ranked)
        clean == { i \in all : ~ranked[i].disposable }
        chosen == ranked[TopOf(ranked, IF clean # {} THEN clean ELSE all)]
        written == probe.updateLead # Some(FALSE)
    IN /\ Get(returned.best).email = chosen.email
       /\ Get(returned.best).finalScore = chosen.finalScore
       /\ written => Get(returned.lead).email = chosen.email
       /\ ~written => returned.lead = probe.lead
       /\ (clean # {} /\ written) =>
            \E i \in clean : ranked[i].email = Get(returned.lead).email

\* a lead got the address of a non-disposable candidate that is not the first of the
\* ranking, and another lead the top address of a ranking that is all disposable
C23_Witness ==
  /\ probe.op = "leadGuessEmail" /\ returned.state = "returned" /\ returned.status = 200
  /\ probe.updateLead = Nothing
  /\ returned.candidates[1].disposable
  /\ ~Get(returned.best).disposable
  /\ Get(returned.lead).email = Get(returned.best).email
  /\ Get(returned.lead).email # returned.candidates[1].email

\* the domain part of the address (what follows its first @, up to a further @ or the
\* end, without surrounding blanks and in lower case) is on the local blocklist
OnBlocklist(email) ==
  \E d \in localDisposableDomains :
    \E i \in 1..Len(email) :
      /\ email[i] = "@"
      /\ \A j \in 1..(i - 1) : email[j] # "@"
      /\ \E k \in i..Len(email) :
           /\ toLowerCase(SubSeq(email, i + 1, k)) = d
           /\ \/ k < Len(email) /\ email[k + 1] = "@"
              \/ \A j \in (k + 1)..Len(email) : email[j] = " "

\* C24: isDisposableEmail fails open.  An address whose domain is on the local
\* blocklist is disposable without a call of the service; for every other address the
\* call never surfaces as an error, and when it fails (rejected fetch or timeout,
\* non-2xx status, unparsable body) the answer is disposable = false
C24_FailsOpen ==
  (probe.op = "isDisposableEmail" /\ returned.state # "none") =>
    /\ returned.state = "returned"
    /\ OnBlocklist(probe.email) =>
         (returned.result.disposable /\ ~returned.result.fetched)
    /\ (~OnBlocklist(probe.email) /\ probe.kick.kind # "ok") => ~returned.result.disposable
    /\ returned.result.disposable =>
         (OnBlocklist(probe.email) \/ probe.kick = [kind |-> "ok", disposable |-> Some(TRUE)])

\* the service was called for an address off the blocklist and the call failed
C24_Witness ==
  /\ probe.op = "isDisposableEmail" /\ returned.state = "returned"
  /\ returned.result.fetched /\ probe.kick.kind = "reject"
  /\ ~returned.result.disposable

(***************************************************************************)
(* Properties of tileBbox.                                                 *)
(***************************************************************************)
TilesReturned == probe.op = "tileBbox" /\ returned.state = "returned"

\* the tile of row r and column c (from 0) in row-major order
TileAt(r, c) == returned.tiles[r * probe.cols + c + 1]

\* rows*cols tiles, those of a row sharing their south and north edge and those of a
\* column their west and east edge, neighbours sharing their common edge, and no tile
\* reaching back over the edge it starts from: no two tiles overlap in their interiors
TilesAbut ==
  /\ Len(returned.tiles) = probe.rows * probe.cols
  /\ \A r \in 0..(probe.rows - 1) : \A c \in 0..(probe.cols - 1) :
       /\ TileAt(r, c).south = TileAt(r, 0).south /\ TileAt(r, c).north = TileAt(r, 0).north
       /\ TileAt(r, c).west = TileAt(0, c).west /\ TileAt(r, c).east = TileAt(0, c).east
       /\ TileAt(r, c).south <= TileAt(r, c).north /\ TileAt(r, c).west <= TileAt(r, c).east
       /\ r > 0 => TileAt(r, c).south = TileAt(r - 1, c).north
       /\ c > 0 => TileAt(r, c).west = TileAt(r, c - 1).east

\* the tiles reach from the south/west to the north/east bound of the region
TilesCover ==
  /\ TileAt(0, 0).south = probe.region.south
  /\ TileAt(0, 0).west = probe.region.west
  /\ TileAt(probe.rows - 1, probe.cols - 1).north = probe.region.north
  /\ TileAt(probe.rows - 1, probe.cols - 1).east = probe.region.east

Finished(r) == pc[r] = "done" /\ response[r].status = 201

\* the combinations of filter group and tile, cut by the call budget
CallBound(r) == Min(input[r].maxCalls, Len(Filters(r)) * Len(Tiles))

ReportsCounters(r) ==
  /\ response[r].callsMade = calls[Frame(r)]
  /\ response[r].created = createdIds[Frame(r)]

Terminates == \A r \in Runs : (pc[r] = "loop") ~> (pc[r] = "done")

\* C26 as stated: every run terminates; it makes exactly min(maxCalls, filterGroups*tiles)
\* calls when the result budget is never met and fewer otherwise; its response reports
\* callsMade and created equal to the counters at the moment the loop stopped
C26_TerminatesFewerOtherwise ==
  /\ Terminates
  /\ [](\A r \in Runs : Finished(r) =>
          /\ ReportsCounters(r)
          /\ IF createdIds[Frame(r)] < input[r].target
             THEN calls[Frame(r)] = CallBound(r)
             ELSE calls[Frame(r)] < CallBound(r))

\* C26, amended: a run that meets the result budget makes at most that many calls (it
\* may meet the budget with the last call the call budget allows)
C26_Terminates ==
  /\ Terminates
  /\ [](\A r \in Runs : Finished(r) =>
          /\ ReportsCounters(r)
          /\ IF createdIds[Frame(r)] < input[r].target
             THEN calls[Frame(r)] = CallBound(r)
             ELSE calls[Frame(r)] <= CallBound(r))

\* a run that met the result budget with the last call of its call budget
C26_Witness ==
  /\ Finished("A")
  /\ createdIds[Frame("A")] >= input["A"].target
  /\ calls[Frame("A")] = CallBound("A")
  /\ response["A"].callsMade = input["A"].maxCalls

(***************************************************************************)
(* Properties of scrapeImpressum.                                          *)
(***************************************************************************)
Scraping == probe.op = "scrapeImpressum" /\ returned.state \in {"running", "returned"}

\* the fixed paths on the base host, then the same paths on the www. host
ExpectedCandidates ==
  LET u == ParseUrl(probe.website)
      n == Len(IMPRESSUM_PATHS)
  IN [i \in 1..(IF u.www = None THEN n ELSE 2 * n) |->
        IF i <= n THEN u.origin \o IMPRESSUM_PATHS[i] ELSE u.www \o IMPRESSUM_PATHS[i - n]]

\* the page at candidate i yields a match of the kinds named
Yields(i, fields) == IsSome(probe.pages[i]) /\ \E f \in fields : Truthy(Get(probe.pages[i])[f])

\* the URLs fetched are the candidates in their order, without gap or repetition
ProbesInOrder ==
  /\ Len(returned.fetched) <= Len(ExpectedCandidates)
  /\ returned.fetched = SubSeq(ExpectedCandidates, 1, Len(returned.fetched))

\* a non-empty result is the extraction of the page fetched last, no page fetched before
\* it yielded anything, and an empty result comes only after every candidate was fetched
FirstMatchReturned ==
  returned.state = "returned" =>
    LET n == Len(returned.fetched)
    IN IF returned.imp # EmptyImpressum
       THEN /\ n >= 1
            /\ returned.imp.sourceUrl = ExpectedCandidates[n]
            /\ \A f \in {"email", "phone", "owner", "address"} :
                  returned.imp[f] = Get(probe.pages[n])[f]
            /\ \A i \in 1..(n - 1) : ~Yields(i, {"email", "phone", "owner", "address"})
       ELSE n = Len(ExpectedCandidates)

\* a non-empty result only if a probed page yielded an email, phone or owner-name match
NonEmptyOnlyOnContact ==
  returned.state = "returned" /\ returned.imp # EmptyImpressum =>
    \E i \in 1..Len(returned.fetched) : Yields(i, {"email", "phone", "owner"})

\* C27: scrapeImpressum probes its candidate URLs (the fixed paths on the base host, then
\* the same paths on the www. host) one at a time in that order, returns the extraction of
\* the first page that yields a match and fetches no later URL after it; it returns a
\* non-empty result only if some probed page yielded an email, phone or owner-name match
C27_FirstMatchWins ==
  Scraping => (ProbesInOrder /\ FirstMatchReturned /\ NonEmptyOnlyOnContact)

(***************************************************************************)
(* Properties of POST /api/leadfinder/scrape.                              *)
(***************************************************************************)
\* C28: the number of ScrapedLead records created for a tier within one day never exceeds
\* that tier's dailyScrapeLimit, also when several scrape requests for the tier are
\* processed concurrently
C28_DailyLimitHolds ==
  probe.op = "leadfinder/scrape" =>
    \A t \in ProbedTiers : returned.table[t] <= dailyScrapeLimit(t)

(***************************************************************************)
(* Properties of the bulk import: the range of the throttle, and a failing *)
(* persistence step.                                                       *)
(***************************************************************************)
\* the handler of run r is between its declarations and its response
InLoops(r) == pc[r] \in {"loop", "request", "places"}

\* C29: in every reachable state of a run, for every interleaving of successful, empty and
\* rate-limited call outcomes, 75 <= delayMs <= 5000 and successStreak >= 0, and delayMs
\* decreases only on a call that makes successStreak >= 3
C29_ThrottleRange ==
  /\ [](\A r \in Runs : InRun(r) =>
          /\ 75 <= delayMs[r] /\ delayMs[r] <= 5000
          /\ successStreak[r] >= 0)
  /\ [][\A r \in Runs :
          (InLoops(r) /\ delayMs'[r] < delayMs[r]) => (Responds(r) /\ successStreak'[r] >= 3)]_vars

\* a run that sped up to the floor and stayed there on a further success
C29_Witness ==
  \E r \in Runs :
    /\ InRun(r) /\ delayMs[r] = 75 /\ successStreak[r] >= 3
    /\ Len(log[r]) >= 2 /\ log[r][Len(log[r]) - 1].delayMs = 75

\* the places of run r whose persistence failed
Failed(r) == { i \in 1..Len(handed[r]) : handed[r][i].outcome = "threw" }

\* a place is handed to persistence in this step, and persistence throws
PersistFails(r) ==
  /\ Len(handed'[r]) = Len(handed[r]) + 1
  /\ handed'[r][Len(handed'[r])].outcome = "threw"

\* C30: when persisting an admitted place fails, the run continues with the next place,
\* the failed place is not counted toward created or the target, and its IdentityKey
\* stays in the seen-set so that a later record with the same key is not attempted again
\* in that run; hence created never exceeds the number of distinct keys seen
C30_PersistFailureSkipped ==
  /\ [](\A r \in Runs : InRun(r) =>
          /\ createdIds[r] = Len(handed[r]) - Cardinality(Failed(r))
          /\ \A i \in Failed(r) :
               /\ IdentityKey(handed[r][i].place) \in seenRef[r]
               /\ \A j \in 1..Len(handed[r]) :
                    j # i => IdentityKey(handed[r][j].place) # IdentityKey(handed[r][i].place)
          /\ createdIds[r] <= Cardinality(seenRef[r]))
  /\ [][\A r \in Runs :
          PersistFails(r) =>
            /\ createdIds'[r] = createdIds[r]
            /\ response'[r] = response[r]
            /\ IF placeIdx[r] < Len(resp[r].places)
               THEN pc'[r] = "places" /\ placeIdx'[r] = placeIdx[r] + 1
               ELSE pc'[r] = "loop"]_vars

\* a place failed to persist, a later record of the same call with its key was visited
\* and not handed on, and a place after it was created
C30_Witness ==
  \E r \in Runs : \E i \in Failed(r) :
    /\ InRun(r) /\ Len(log[r]) = handed[r][i].call
    /\ \E v \in 1..Len(Last(log[r]).visited) :
         /\ Last(log[r]).visited[v] > handed[r][i].index
         /\ IdentityKey(resp[r].places[Last(log[r]).visited[v]]) = IdentityKey(handed[r][i].place)
    /\ \E j \in 1..Len(handed[r]) : j > i /\ handed[r][j].outcome = "created"
    /\ createdIds[r] < Cardinality(seenRef[r])
====
